---------------------------- MODULE Spec2Model ----------------------------
(***************************************************************************)
(* A model of the decision-journal mobile client: the Outcome screen, the  *)
(* screens that load on focus, and the pure statistics helpers.            *)
(*                                                                         *)
(* Conventions.                                                            *)
(*  - A JavaScript value that may be null/undefined is a tuple: <<>> is    *)
(*    null/undefined and <<v>> is the value v.                             *)
(*  - A text (the contents of a TextInput) is a tuple of one-character     *)
(*    strings, so that trimming, comma removal and parsing are computed.   *)
(*  - A React state hook of a screen is a field of that screen's record,   *)
(*    under the name it has in the source.                                 *)
(*  - Arithmetic is exact (integers and fractions); IEEE-754 rounding of   *)
(*    the JavaScript numbers is not modelled.                              *)
(***************************************************************************)
EXTENDS Integers, Sequences, FiniteSets, TLC

VARIABLES
    life,       \* the mounted screen's lifecycle: "mounted" | "focused" | "unmounted"
    screen,     \* which screen this behaviour is about
    params,     \* the route parameters the screen was opened with
    server,     \* what the server holds for the decision the parameters name
    outcome,    \* the Outcome screen's state hooks
    home,       \* the Home screen's state hooks
    analysis,   \* the Analysis screen's state hooks
    review,     \* the Review screen's state hooks
    detail,     \* the Detail screen's state hooks
    weekly,     \* the Weekly report screen's state hooks
    net,        \* requests in flight, in the order they were issued
    nav,        \* the last navigation the screen asked the router for
    fn,         \* the pure-function workbench: inputs and the value computed
    record      \* the Record screen's state hooks

vars == <<life, screen, params, server, outcome, home, analysis, review, detail,
          weekly, net, nav, fn, record>>

\* The state hooks of the screens that load on focus.
loadVars == <<home, analysis, review, detail, weekly>>

----------------------------------------------------------------------------
(* Optional values *)

None == <<>>

Some(v) == <<v>>

Get(o) == o[1]

----------------------------------------------------------------------------
(* Texts *)

DigitChars == {"0", "1", "2", "3", "4", "5", "6", "7", "8", "9"}

DigitVal(c) ==
    CASE c = "0" -> 0 [] c = "1" -> 1 [] c = "2" -> 2 [] c = "3" -> 3
      [] c = "4" -> 4 [] c = "5" -> 5 [] c = "6" -> 6 [] c = "7" -> 7
      [] c = "8" -> 8 [] c = "9" -> 9

DigitChar(n) ==
    CASE n = 0 -> "0" [] n = 1 -> "1" [] n = 2 -> "2" [] n = 3 -> "3"
      [] n = 4 -> "4" [] n = 5 -> "5" [] n = 6 -> "6" [] n = 7 -> "7"
      [] n = 8 -> "8" [] n = 9 -> "9"

\* String.prototype.replace(/,/g, "")
RemoveCommas(s) == SelectSeq(s, LAMBDA c : c # ",")

RECURSIVE TrimStart(_)
TrimStart(s) ==
    IF s # <<>> /\ Head(s) = " " THEN TrimStart(Tail(s)) ELSE s

RECURSIVE TrimEnd(_)
TrimEnd(s) ==
    IF s # <<>> /\ s[Len(s)] = " " THEN TrimEnd(SubSeq(s, 1, Len(s) - 1)) ELSE s

\* String.prototype.trim()
Trim(s) == TrimEnd(TrimStart(s))

\* The longest prefix of s made of decimal digits.
RECURSIVE DigitPrefix(_)
DigitPrefix(s) ==
    IF s # <<>> /\ Head(s) \in DigitChars
    THEN <<Head(s)>> \o DigitPrefix(Tail(s))
    ELSE <<>>

RECURSIVE DigitsValue(_)
DigitsValue(ds) ==
    IF ds = <<>> THEN 0
    ELSE 10 * DigitsValue(SubSeq(ds, 1, Len(ds) - 1)) + DigitVal(ds[Len(ds)])

\* Number.parseFloat on a text without ".", "e" or "Infinity": leading white
\* space is skipped, one sign is read, then the longest run of digits; what
\* follows is ignored, and no digit at all gives NaN (None here).
ParseFloat(s) ==
    LET t    == TrimStart(s)
        neg  == t # <<>> /\ Head(t) = "-"
        body == IF t # <<>> /\ Head(t) \in {"-", "+"} THEN Tail(t) ELSE t
        ds   == DigitPrefix(body)
    IN  IF ds = <<>> THEN None
        ELSE Some(IF neg THEN 0 - DigitsValue(ds) ELSE DigitsValue(ds))

RECURSIVE NatToText(_)
NatToText(n) ==
    IF n < 10 THEN <<DigitChar(n)>>
    ELSE NatToText(n \div 10) \o <<DigitChar(n % 10)>>

\* String(n) for an integer n
NumberToText(n) == IF n < 0 THEN <<"-">> \o NatToText(0 - n) ELSE NatToText(n)

\* A JSON value read where the code expects a number (typeof v === "number"
\* && Number.isFinite(v)): a finite number, an absent field, or something else.
\* The numbers of the model are integers.
Num(n) == <<"number", n>>

Missing == <<"undefined">>

NotNumber == <<"string">>

\* A finite number that need not be an integer: h / 2.
NumHalves(h) == <<"halves", h>>

----------------------------------------------------------------------------
(* app/outcome.tsx: helpers *)

parseNumberInputOrZero(value) ==
    IF ParseFloat(Trim(RemoveCommas(value))) = None THEN Some(0)
    ELSE ParseFloat(Trim(RemoveCommas(value)))

\* Number.isFinite(num) ? num : null  -- every parsed value here is finite
parseNumberInput(value) == ParseFloat(Trim(RemoveCommas(value)))

\* Math.round(p / q) for q > 0: the nearest integer, a tie going up.
MathRoundDiv(p, q) == (2 * p + q) \div (2 * q)

calcReturnRateBuyOnly(entry, exit, action) ==
    IF entry <= 0 THEN None ELSE Some(MathRoundDiv(1000 * (exit - entry), entry))

\* The value returned is Math.round(raw * 1000) / 10, a number of percent with
\* one decimal; the model holds it in tenths of a percent (56 is 5.6 %).
calcReturnRate(entry, exit, action) ==
    IF entry <= 0 THEN None
    ELSE LET num == IF action = "sell" THEN entry - exit ELSE exit - entry
         IN  Some(MathRoundDiv(1000 * num, entry))

\* app/detail.tsx has its own copy of calcReturnRate.
calcReturnRateDetail(entry, exit, action) ==
    IF entry <= 0 THEN None
    ELSE LET num == IF action = "sell" THEN entry - exit ELSE exit - entry
         IN  Some(MathRoundDiv(1000 * num, entry))

----------------------------------------------------------------------------
(* Bounds of the model *)

\* How many requests of one screen are in flight at once.
MaxInFlight == 2

\* The longest list of decisions given to the Review screen's stats.
MaxList == 3

\* The prices given to calcReturnRate run to MaxPrice, besides 72000 and 76000.
MaxPrice == 8

\* How many of the ten TAGS the selector offers in the model.
MaxTags == 6

\* The largest number of decisions per result in the generated weekly reports.
MaxCount == 2

\* The days on which the weekly report is opened: BaseDay .. BaseDay + MaxDay,
\* counted from 1970-01-01 (20000 is 2024-10-04).
BaseDay == 20000

MaxDay == 8


----------------------------------------------------------------------------
(* Decisions as the server returns them *)

NoMeta ==
    [symbol |-> None, action |-> None, marketCondition |-> None,
     entryPrice |-> None, exitPrice |-> None, reflection |-> None]

\* The decisions GET /api/decisions/d1 may return in this model.
Decision(id, categoryId, result, confidence, meta) ==
    [ id |-> id, categoryId |-> categoryId, title |-> <<"T">>, notes |-> None,
      tags |-> << <<"a">>, <<"b">> >>, result |-> result,
      confidence |-> confidence, meta |-> meta ]

ServerDecisions ==
    { Decision("d1", "invest", "pending", 4,
               [NoMeta EXCEPT !.symbol = Some("AAA"), !.action = Some("sell"),
                              !.marketCondition = Some("bull"),
                              !.entryPrice = Some(72)]),
      Decision("d1", "invest", "pending", 3, NoMeta),
      Decision("d1", "daily", "pending", 2,
               [NoMeta EXCEPT !.reflection = Some(<<"r">>)]) }

\* What the user may type into a price input.
PriceTexts == { <<>>, <<" ">>, <<"x">>, <<"7", "2">>, <<"7", ",", "6">> }

----------------------------------------------------------------------------
(* Requests in flight *)

\* alive: the `alive` flag (or mountedRef) the handler of this request closes
\* over; stale: the screen lost focus or unmounted after issuing the request;
\* body: the JSON body of a PATCH or POST, None for a GET.
Request(op, body) == [op |-> op, body |-> body, alive |-> TRUE, stale |-> FALSE]

Without(q, i) == SubSeq(q, 1, i - 1) \o SubSeq(q, i + 1, Len(q))

InFlight(op) == { i \in DOMAIN net : net[i].op = op }

----------------------------------------------------------------------------
(* app/outcome.tsx: OutcomeScreen *)

NoBanner == [kind |-> "none", text |-> "none"]

Banner(kind, text) == [kind |-> kind, text |-> text]

showError(text) == Banner("error", text)

showInfo(text) == Banner("info", text)

\* useState initial values
OutcomeInitial ==
    [ result |-> "null", confidence |-> 3, loading |-> FALSE,
      loadingDecision |-> FALSE, decision |-> None,
      symbol |-> "", action |-> "buy", marketCondition |-> None,
      entryPrice |-> <<>>, exitPrice |-> <<>>, banner |-> NoBanner ]

\* (decision?.categoryId ?? categoryId) === "invest"
isInvest(o) ==
    LET cat == IF o.decision # None THEN Some(Get(o.decision).categoryId)
               ELSE params.categoryId
    IN  cat = Some("invest")

entryValue(o) == parseNumberInput(o.entryPrice)

exitValue(o) == parseNumberInput(o.exitPrice)

\* submit without its `if (!result)` check
SubmitRejectionNoResultCheck(o) ==
    IF params.id = None THEN Some(showError("noId"))
    ELSE IF isInvest(o) /\ Trim(o.entryPrice) = <<>> THEN Some(showInfo("enterEntryPrice"))
    ELSE IF isInvest(o) /\ Trim(o.exitPrice) = <<>> THEN Some(showInfo("enterExitPrice"))
    ELSE IF isInvest(o) /\ (entryValue(o) = None \/ exitValue(o) = None)
         THEN Some(showInfo("invalidPrice"))
    ELSE None

\* The validation of submit: the banner it shows and returns with, if any.
SubmitRejection(o) ==
    IF params.id = None THEN Some(showError("noId"))
    ELSE IF o.result = "null" THEN Some(showInfo("selectResult"))
    ELSE IF isInvest(o) /\ Trim(o.entryPrice) = <<>> THEN Some(showInfo("enterEntryPrice"))
    ELSE IF isInvest(o) /\ Trim(o.exitPrice) = <<>> THEN Some(showInfo("enterExitPrice"))
    ELSE IF isInvest(o) /\ (entryValue(o) = None \/ exitValue(o) = None)
         THEN Some(showInfo("invalidPrice"))
    ELSE None

\* JSON.stringify drops the keys whose value is undefined.
DropUndefined(obj) == [k \in {x \in DOMAIN obj : obj[x] # None} |-> obj[k]]

\* The meta object literal of submit.
SubmitMeta(o) ==
    DropUndefined(
      [ symbol |-> IF o.symbol # "" THEN Some(o.symbol) ELSE None,
        action |-> Some(o.action),
        marketCondition |-> o.marketCondition,
        entryPrice |-> entryValue(o),
        exitPrice |-> exitValue(o) ])

\* The body of the PATCH; meta is None when the key is left out.
SubmitPayload(o) ==
    [ result |-> o.result, confidence |-> o.confidence,
      meta |-> IF isInvest(o) THEN Some(SubmitMeta(o)) ELSE None ]

\* The validation of the earlier variant's submit.
SubmitRejectionEarlier(o) ==
    IF params.id = None THEN Some(showError("noId"))
    ELSE IF o.result = "null" THEN Some(showInfo("selectResult"))
    ELSE None

\* The body of the earlier variant's PATCH: { result, confidence }
SubmitPayloadEarlier(o) ==
    [ result |-> o.result, confidence |-> o.confidence, meta |-> None ]

\* The file holds two variants of the screen; "outcomeEarlier" is the one
\* without the decision fetch and the invest fields.
OnOutcome == screen \in {"outcome", "outcomeEarlier"} /\ life = "focused"

\* The form is rendered only when the id parameter is present.
OutcomeForm == OnOutcome /\ params.id # None

OutcomeSetResult(r) ==
    /\ OutcomeForm /\ ~outcome.loading
    /\ outcome' = [outcome EXCEPT !.result = r, !.banner = NoBanner]
    /\ UNCHANGED <<life, screen, params, server, net, nav, fn, record, loadVars>>

OutcomeSetConfidence(v) ==
    /\ OutcomeForm /\ ~outcome.loading
    /\ outcome' = [outcome EXCEPT !.confidence = v]
    /\ UNCHANGED <<life, screen, params, server, net, nav, fn, record, loadVars>>

OutcomeSetEntryPrice(t) ==
    /\ OutcomeForm /\ screen = "outcome" /\ isInvest(outcome)
    /\ ~outcome.loading /\ ~outcome.loadingDecision
    /\ outcome' = [outcome EXCEPT !.entryPrice = t]
    /\ UNCHANGED <<life, screen, params, server, net, nav, fn, record, loadVars>>

OutcomeSetExitPrice(t) ==
    /\ OutcomeForm /\ screen = "outcome" /\ isInvest(outcome)
    /\ ~outcome.loading /\ ~outcome.loadingDecision
    /\ outcome' = [outcome EXCEPT !.exitPrice = t]
    /\ UNCHANGED <<life, screen, params, server, net, nav, fn, record, loadVars>>

OutcomeCloseBanner ==
    /\ OnOutcome /\ outcome.banner # NoBanner
    /\ outcome' = [outcome EXCEPT !.banner = NoBanner]
    /\ UNCHANGED <<life, screen, params, server, net, nav, fn, record, loadVars>>

\* submit, up to its await
OutcomeSubmit ==
    /\ OutcomeForm /\ screen = "outcome" /\ ~outcome.loading
    /\ LET rejection == SubmitRejection(outcome)
       IN  IF rejection # None
           THEN /\ outcome' = [outcome EXCEPT !.banner = Get(rejection)]
                /\ UNCHANGED net
           ELSE /\ outcome' = [outcome EXCEPT !.banner = NoBanner, !.loading = TRUE]
                /\ net' = Append(net, Request("updateDecisionResult",
                                               Some(SubmitPayload(outcome))))
    /\ UNCHANGED <<life, screen, params, server, nav, fn, record, loadVars>>

\* The earlier variant's submit, up to its await
OutcomeSubmitEarlier ==
    /\ OutcomeForm /\ screen = "outcomeEarlier" /\ ~outcome.loading
    /\ LET rejection == SubmitRejectionEarlier(outcome)
       IN  IF rejection # None
           THEN /\ outcome' = [outcome EXCEPT !.banner = Get(rejection)]
                /\ UNCHANGED net
           ELSE /\ outcome' = [outcome EXCEPT !.banner = NoBanner, !.loading = TRUE]
                /\ net' = Append(net, Request("updateDecisionResult",
                                               Some(SubmitPayloadEarlier(outcome))))
    /\ UNCHANGED <<life, screen, params, server, nav, fn, record, loadVars>>

\* What a state update does to a screen record: React drops the updates of an
\* unmounted component.
Applied(old, new) == IF life = "unmounted" THEN old ELSE new

\* The cleanup of the fetch effect: alive = false
OutcomeCleanup(q) ==
    [i \in DOMAIN q |->
        IF q[i].op = "getDecision" THEN [q[i] EXCEPT !.alive = FALSE, !.stale = TRUE]
        ELSE [q[i] EXCEPT !.stale = TRUE]]

\* The decision after the server applied the body of an outcome PATCH: result,
\* confidence and the meta keys sent.
ServerPatched(d, body) ==
    [d EXCEPT !.result = body.result,
              !.confidence = body.confidence,
              !.meta = IF body.meta = None THEN @
                       ELSE [k \in DOMAIN @ |->
                               IF k \in DOMAIN Get(body.meta) THEN Get(body.meta)[k]
                               ELSE @[k]]]

\* submit after its await resolved: router.replace("/review"), then finally
OutcomeSubmitOk(i) ==
    /\ screen = "outcome" /\ i \in InFlight("updateDecisionResult")
    /\ server' = [server EXCEPT !.decision = ServerPatched(@, Get(net[i].body))]
    /\ net' = OutcomeCleanup(Without(net, i))
    /\ nav' = "review"
    /\ life' = "unmounted"
    /\ outcome' = Applied(outcome, [outcome EXCEPT !.loading = FALSE])
    /\ UNCHANGED <<screen, params, fn, record, loadVars>>

\* The earlier variant: router.push("/review") leaves the screen mounted under
\* the Review screen, and finally's setLoading(false) applies.
OutcomeSubmitOkEarlier(i) ==
    /\ screen = "outcomeEarlier" /\ i \in InFlight("updateDecisionResult")
    /\ server' = [server EXCEPT !.decision = ServerPatched(@, Get(net[i].body))]
    /\ net' = Without(net, i)
    /\ nav' = "review"
    /\ life' = IF life = "unmounted" THEN life ELSE "mounted"
    /\ outcome' = Applied(outcome, [outcome EXCEPT !.loading = FALSE])
    /\ UNCHANGED <<screen, params, fn, record, loadVars>>

\* Back from the pushed Review screen to the earlier variant's form.
OutcomeRefocusEarlier ==
    /\ screen = "outcomeEarlier" /\ life = "mounted"
    /\ life' = "focused"
    /\ nav' = "none"
    /\ UNCHANGED <<screen, params, server, outcome, net, fn, record, loadVars>>

\* submit after its await rejected: catch, then finally
OutcomeSubmitFail(i) ==
    /\ screen \in {"outcome", "outcomeEarlier"} /\ i \in InFlight("updateDecisionResult")
    /\ net' = Without(net, i)
    /\ outcome' = Applied(outcome, [outcome EXCEPT !.banner = showError("saveFailed"),
                                                   !.loading = FALSE])
    /\ UNCHANGED <<life, screen, params, server, nav, fn, record, loadVars>>

\* getDecision(id).then(...).finally(...)
OutcomeFetchOk(i) ==
    /\ screen = "outcome" /\ i \in InFlight("getDecision")
    /\ net' = Without(net, i)
    /\ LET d == server.decision
           meta == d.meta
       IN outcome' =
            IF ~net[i].alive THEN outcome
            ELSE Applied(outcome,
                   [outcome EXCEPT
                      !.decision = Some(d),
                      !.symbol = IF meta.symbol # None THEN Get(meta.symbol) ELSE "",
                      !.action = IF meta.action = Some("sell") THEN "sell" ELSE "buy",
                      !.marketCondition = meta.marketCondition,
                      !.entryPrice = IF meta.entryPrice # None
                                     THEN NumberToText(Get(meta.entryPrice)) ELSE <<>>,
                      !.exitPrice = IF meta.exitPrice # None
                                    THEN NumberToText(Get(meta.exitPrice)) ELSE <<>>,
                      !.loadingDecision = FALSE])
    /\ UNCHANGED <<life, screen, params, server, nav, fn, record, loadVars>>

\* getDecision(id).catch(...).finally(...)
OutcomeFetchFail(i) ==
    /\ screen = "outcome" /\ i \in InFlight("getDecision")
    /\ net' = Without(net, i)
    /\ outcome' =
         IF ~net[i].alive THEN outcome
         ELSE Applied(outcome, [outcome EXCEPT !.banner = showInfo("fetchFailed"),
                                               !.loadingDecision = FALSE])
    /\ UNCHANGED <<life, screen, params, server, nav, fn, record, loadVars>>

\* "later" (router.replace("/")), "to detail", and the no-id screen's home button
OutcomeLeave(to) ==
    /\ OnOutcome
    /\ IF params.id = None THEN to = "home" ELSE ~outcome.loading
    /\ screen = "outcomeEarlier" /\ params.id # None => to = "detail"
    /\ nav' = to
    /\ life' = "unmounted"
    /\ net' = OutcomeCleanup(net)
    /\ UNCHANGED <<screen, params, server, outcome, fn, record, loadVars>>

\* The system back gesture: available whatever the screen is doing.
OutcomeBack ==
    /\ OnOutcome
    /\ nav' = "back"
    /\ life' = "unmounted"
    /\ net' = OutcomeCleanup(net)
    /\ UNCHANGED <<screen, params, server, outcome, fn, record, loadVars>>

\* The fetch effect, run at mount: if (!id) return; setLoadingDecision(true); getDecision(id)
OutcomeMounted(p) ==
    IF p.id = None \/ screen = "outcomeEarlier" THEN OutcomeInitial
    ELSE [OutcomeInitial EXCEPT !.loadingDecision = TRUE]

\* What the screen renders: the no-id branch precedes the form.
OutcomeView == IF params.id = None THEN "noId" ELSE "form"

----------------------------------------------------------------------------
(* Screens that load on focus: shared pieces *)

\* The lists GET /api/decisions may return in this model.
ServerLists ==
    { <<>>,
      << Decision("d1", "invest", "pending", 4, NoMeta) >>,
      << Decision("d1", "invest", "pending", 4, NoMeta),
         Decision("d2", "daily", "positive", 2, NoMeta) >> }

\* The lists GET /api/analysis/pending may return in this model.
ServerPendingLists ==
    { <<>>, << Decision("d1", "invest", "pending", 4, NoMeta) >> }

\* A new request is issued only while fewer than MaxInFlight are in flight.
CanIssue == Len(net) < MaxInFlight

\* Every request in flight was issued before the screen lost focus or unmounted.
MarkStale(q) == [i \in DOMAIN q |-> [q[i] EXCEPT !.stale = TRUE]]

----------------------------------------------------------------------------
(* app/index.tsx: HomeScreen *)

HomeInitial ==
    [ all |-> <<>>, pending |-> <<>>, refreshing |-> FALSE,
      initialLoading |-> TRUE, loadError |-> None ]

\* useFocusEffect: alive = true; setInitialLoading(true); load() to its await
HomeFocus ==
    /\ screen = "home" /\ life = "mounted" /\ CanIssue
    /\ life' = "focused"
    /\ home' = [home EXCEPT !.initialLoading = TRUE, !.loadError = None]
    /\ net' = Append(net, Request("homeFocusLoad", None))
    /\ UNCHANGED <<screen, params, server, outcome, analysis, review, detail, weekly,
                   nav, fn, record>>

\* load() resumed with both lists, then the effect's finally
HomeFocusLoadOk(i, allList, pendingList) ==
    /\ screen = "home" /\ i \in InFlight("homeFocusLoad")
    /\ net' = Without(net, i)
    /\ home' = Applied(home,
                 [home EXCEPT !.all = allList, !.pending = pendingList,
                              !.initialLoading = IF net[i].alive THEN FALSE ELSE @])
    /\ UNCHANGED <<life, screen, params, server, outcome, analysis, review, detail,
                   weekly, nav, fn, record>>

\* load() threw: the effect's catch and finally
HomeFocusLoadFail(i) ==
    /\ screen = "home" /\ i \in InFlight("homeFocusLoad")
    /\ net' = Without(net, i)
    /\ home' = Applied(home,
                 [home EXCEPT !.loadError = IF net[i].alive THEN Some("loadFailed") ELSE @,
                              !.initialLoading = IF net[i].alive THEN FALSE ELSE @])
    /\ UNCHANGED <<life, screen, params, server, outcome, analysis, review, detail,
                   weekly, nav, fn, record>>

\* onRefresh to its await: pull-to-refresh on the list, or a tap on the error banner
HomeRefresh ==
    /\ screen = "home" /\ life = "focused" /\ CanIssue
    /\ ~home.initialLoading \/ home.loadError # None
    /\ home' = [home EXCEPT !.refreshing = TRUE, !.loadError = None]
    /\ net' = Append(net, Request("homeRefresh", None))
    /\ UNCHANGED <<life, screen, params, server, outcome, analysis, review, detail,
                   weekly, nav, fn, record>>

HomeRefreshOk(i, allList, pendingList) ==
    /\ screen = "home" /\ i \in InFlight("homeRefresh")
    /\ net' = Without(net, i)
    /\ home' = Applied(home,
                 [home EXCEPT !.all = allList, !.pending = pendingList,
                              !.refreshing = FALSE])
    /\ UNCHANGED <<life, screen, params, server, outcome, analysis, review, detail,
                   weekly, nav, fn, record>>

HomeRefreshFail(i) ==
    /\ screen = "home" /\ i \in InFlight("homeRefresh")
    /\ net' = Without(net, i)
    /\ home' = Applied(home,
                 [home EXCEPT !.loadError = Some("refreshFailed"), !.refreshing = FALSE])
    /\ UNCHANGED <<life, screen, params, server, outcome, analysis, review, detail,
                   weekly, nav, fn, record>>

\* The focus effect's cleanup: alive = false
HomeCleanup(q) ==
    [i \in DOMAIN q |->
        IF q[i].op = "homeFocusLoad" THEN [q[i] EXCEPT !.alive = FALSE] ELSE q[i]]

\* openRecord / openAnalysis / openWeeklyReport / openItem: router.push
HomeBlur ==
    /\ screen = "home" /\ life = "focused"
    /\ life' = "mounted"
    /\ nav' = "push"
    /\ net' = MarkStale(HomeCleanup(net))
    /\ UNCHANGED <<screen, params, server, outcome, loadVars, fn, record>>

\* String.prototype.toLowerCase, over the letters of the model
ToLowerCase(text) ==
    [i \in DOMAIN text |->
        IF text[i] = "T" THEN "t" ELSE IF text[i] = "A" THEN "a" ELSE text[i]]

\* String.prototype.includes
Contains(text, q) ==
    \E start \in 1..(Len(text) - Len(q) + 1) : SubSeq(text, start, start + Len(q) - 1) = q

\* includesText(v, q); v is an Option text (notes may be null)
includesText(v, q) ==
    IF q = <<>> THEN TRUE
    ELSE IF v = None THEN FALSE
    ELSE Contains(ToLowerCase(Get(v)), q)

\* The list as filtered, in its loaded order.
pendingFirstSkipped(base) == base

\* [...p, ...done]: the pending decisions, then the others
pendingFirst(base) ==
    SelectSeq(base, LAMBDA d : d.result = "pending")
    \o SelectSeq(base, LAMBDA d : d.result # "pending")

filteredIgnoringOnlyPending(all, filter, onlyPending, query) ==
    SelectSeq(all, LAMBDA d : d.result = "pending")
    \o SelectSeq(all, LAMBDA d : d.result # "pending")

\* The useMemo "filtered": category filter, pending only, search, pending first
filtered(all, filter, onlyPending, query) ==
    LET q == ToLowerCase(Trim(query))
        byCategory == IF filter = "all" THEN all
                      ELSE SelectSeq(all, LAMBDA d : d.categoryId = filter)
        byPending == IF onlyPending
                     THEN SelectSeq(byCategory, LAMBDA d : d.result = "pending")
                     ELSE byCategory
        Hit(d) == \/ includesText(Some(d.title), q)
                  \/ includesText(d.notes, q)
                  \/ \E t \in DOMAIN d.tags : Contains(ToLowerCase(d.tags[t]), q)
        base == IF q # <<>> THEN SelectSeq(byPending, Hit) ELSE byPending
    IN  pendingFirst(base)

pendingCount(h) == Len(h.pending)

\* Math.max(0, all.length - pending.length)
completedCount(h) == IF Len(h.all) - Len(h.pending) > 0 THEN Len(h.all) - Len(h.pending) ELSE 0

\* openItem(d): the route pushed
openItem(d) ==
    IF d.result = "pending"
    THEN [pathname |-> "/outcome",
          params |-> [id |-> Some(d.id), categoryId |-> Some(d.categoryId)]]
    ELSE [pathname |-> "/detail", params |-> [id |-> Some(d.id), categoryId |-> None]]

\* A tap on a card of the list: openItem pushes Outcome or Detail over Home.
\* Outcome's fetch effect runs at its mount.
HomeOpenItem(k) ==
    /\ screen = "home" /\ life = "focused"
    /\ ~home.initialLoading
    /\ k \in DOMAIN home.all
    /\ LET route == openItem(home.all[k])
       IN  /\ params' = route.params
           /\ nav' = "push"
           /\ IF route.pathname = "/outcome"
              THEN /\ screen' = "outcome"
                   /\ life' = "focused"
                   /\ outcome' = [OutcomeInitial EXCEPT !.loadingDecision = TRUE]
                   /\ net' = <<Request("getDecision", None)>>
              ELSE /\ screen' = "detail"
                   /\ life' = "mounted"
                   /\ outcome' = outcome
                   /\ net' = <<>>
    /\ UNCHANGED <<server, loadVars, fn, record>>

\* From the screen that followed Outcome (Review, reached by router.replace)
\* or from Outcome itself, the user comes back to the home list: to the Home
\* instance underneath (back) or to a new one (router.replace("/")).
ReturnHome(fresh) ==
    /\ screen = "outcome" /\ life = "unmounted"
    /\ screen' = "home"
    /\ life' = "mounted"
    /\ params' = [id |-> None, categoryId |-> None]
    /\ home' = IF fresh THEN HomeInitial ELSE home
    /\ outcome' = OutcomeInitial
    /\ net' = <<>>
    /\ nav' = "none"
    /\ UNCHANGED <<server, analysis, review, detail, weekly, fn, record>>

\* What the server holds, as GET /api/decisions and GET /api/analysis/pending
\* return it: the decision and another, completed one.
ServedAll == << server.decision, Decision("d2", "daily", "positive", 2, NoMeta) >>

ServedPending == SelectSeq(ServedAll, LAMBDA d : d.result = "pending")

----------------------------------------------------------------------------
(* app/analysis.tsx: AnalysisScreen *)

DEFAULT_DAYS == 90

DEFAULT_RECENT_LIMIT == 10

AnalysisInitial ==
    [ data |-> None, loading |-> TRUE, refreshing |-> FALSE, errorMsg |-> None,
      days |-> DEFAULT_DAYS, selectedTag |-> None, selectedCategoryId |-> None,
      recentLimit |-> DEFAULT_RECENT_LIMIT ]

\* The parameters load hands to fetchAnalysisSummary.
AnalysisQuery(a) ==
    [days |-> a.days, categoryId |-> a.selectedCategoryId, limit |-> a.recentLimit]

\* load to its await: setErrorMsg(null); setLoading(true); fetchAnalysisSummary(...)
AnalysisLoadStart(a) == [a EXCEPT !.errorMsg = None, !.loading = TRUE]

AnalysisFocus ==
    /\ screen = "analysis" /\ life = "mounted" /\ CanIssue
    /\ life' = "focused"
    /\ analysis' = AnalysisLoadStart(analysis)
    /\ net' = Append(net, Request("analysisLoad", Some(AnalysisQuery(analysis))))
    /\ UNCHANGED <<screen, params, server, outcome, home, review, detail, weekly, nav, fn, record>>

\* A filter chip: the state changes, load is rebuilt and the focus effect runs
\* it again when the value changed.
AnalysisSetFilter(next) ==
    /\ screen = "analysis" /\ life = "focused"
    /\ ~(analysis.loading /\ analysis.data = None)
    /\ next # analysis
    /\ AnalysisQuery(next) # AnalysisQuery(analysis) => CanIssue
    /\ IF AnalysisQuery(next) # AnalysisQuery(analysis)
       THEN /\ analysis' = AnalysisLoadStart(next)
            /\ net' = Append(net, Request("analysisLoad", Some(AnalysisQuery(next))))
       ELSE /\ analysis' = next
            /\ UNCHANGED net
    /\ UNCHANGED <<life, screen, params, server, outcome, home, review, detail, weekly,
                   nav, fn, record>>

\* setDays(opt.key)
AnalysisSetDays(d) == AnalysisSetFilter([analysis EXCEPT !.days = d])

\* setSelectedCategoryId(null) / setSelectedCategoryId(c.id)
AnalysisSetCategory(c) == AnalysisSetFilter([analysis EXCEPT !.selectedCategoryId = c])

\* clearFilters
AnalysisClearFilters ==
    AnalysisSetFilter([analysis EXCEPT !.selectedCategoryId = None,
                                       !.selectedTag = None,
                                       !.days = DEFAULT_DAYS,
                                       !.recentLimit = DEFAULT_RECENT_LIMIT])

\* load resumed: setData(res); finally setLoading(false). The summary is the
\* server's answer to the query of the request.
AnalysisLoadOk(i) ==
    /\ screen = "analysis" /\ i \in InFlight("analysisLoad")
    /\ net' = Without(net, i)
    /\ analysis' = Applied(analysis,
                     [analysis EXCEPT !.data = Some([query |-> Get(net[i].body)]),
                                      !.loading = FALSE])
    /\ UNCHANGED <<life, screen, params, server, outcome, home, review, detail, weekly,
                   nav, fn, record>>

AnalysisLoadFailRetrying(i) ==
    /\ screen = "analysis" /\ i \in InFlight("analysisLoad")
    /\ net' = Append(Without(net, i), Request("analysisRefresh", net[i].body))
    /\ analysis' = Applied(analysis,
                     [analysis EXCEPT !.errorMsg = Some("loadFailed"), !.loading = FALSE])
    /\ UNCHANGED <<life, screen, params, server, outcome, home, review, detail, weekly,
                   nav, fn, record>>

\* load's catch and finally: setErrorMsg(...); setLoading(false)
AnalysisLoadFail(i) ==
    /\ screen = "analysis" /\ i \in InFlight("analysisLoad")
    /\ net' = Without(net, i)
    /\ analysis' = Applied(analysis,
                     [analysis EXCEPT !.errorMsg = Some("loadFailed"), !.loading = FALSE])
    /\ UNCHANGED <<life, screen, params, server, outcome, home, review, detail, weekly,
                   nav, fn, record>>

\* onRefresh to its await
AnalysisRefresh ==
    /\ screen = "analysis" /\ life = "focused" /\ CanIssue
    /\ ~(analysis.loading /\ analysis.data = None)
    /\ analysis' = [AnalysisLoadStart(analysis) EXCEPT !.refreshing = TRUE]
    /\ net' = Append(net, Request("analysisRefresh", Some(AnalysisQuery(analysis))))
    /\ UNCHANGED <<life, screen, params, server, outcome, home, review, detail, weekly,
                   nav, fn, record>>

AnalysisRefreshOk(i) ==
    /\ screen = "analysis" /\ i \in InFlight("analysisRefresh")
    /\ net' = Without(net, i)
    /\ analysis' = Applied(analysis,
                     [analysis EXCEPT !.data = Some([query |-> Get(net[i].body)]),
                                      !.loading = FALSE, !.refreshing = FALSE])
    /\ UNCHANGED <<life, screen, params, server, outcome, home, review, detail, weekly,
                   nav, fn, record>>

AnalysisRefreshFail(i) ==
    /\ screen = "analysis" /\ i \in InFlight("analysisRefresh")
    /\ net' = Without(net, i)
    /\ analysis' = Applied(analysis,
                     [analysis EXCEPT !.errorMsg = Some("loadFailed"),
                                      !.loading = FALSE, !.refreshing = FALSE])
    /\ UNCHANGED <<life, screen, params, server, outcome, home, review, detail, weekly,
                   nav, fn, record>>

\* goToRecord / a recent row: router.push. The focus effect's cleanup is empty.
AnalysisBlur ==
    /\ screen = "analysis" /\ life = "focused"
    /\ ~(analysis.loading /\ analysis.data = None)
    /\ life' = "mounted"
    /\ nav' = "push"
    /\ net' = MarkStale(net)
    /\ UNCHANGED <<screen, params, server, outcome, loadVars, fn, record>>

----------------------------------------------------------------------------
(* app/review.tsx: ReviewScreen *)

\* typeof meta.reflection === "string" ? meta.reflection : ""
getReflection(meta) == IF meta.reflection # None THEN Get(meta.reflection) ELSE <<>>

\* The state hooks, and with them what the screen instance holds outside React:
\* from, the route's param (absent reads as "unknown"); timers, the
\* setTimeout callbacks of saveReflection not yet run; navigations, the router
\* calls the screen's own code has made.
ReviewInitial ==
    [ target |-> None, all |-> <<>>, loading |-> TRUE, err |-> None,
      reflection |-> <<>>, saving |-> FALSE, banner |-> NoBanner,
      from |-> "unknown", timers |-> 0, navigations |-> 0 ]

\* useFocusEffect: load() to its await, or to its early return without an id
ReviewFocus ==
    /\ screen = "review" /\ life = "mounted"
    /\ life' = "focused"
    /\ IF params.id = None
       THEN /\ review' = [review EXCEPT !.err = Some("noId")]
            /\ UNCHANGED net
       ELSE /\ CanIssue
            /\ review' = [review EXCEPT !.loading = TRUE, !.err = None,
                                        !.banner = NoBanner]
            /\ net' = Append(net, Request("reviewLoad", None))
    /\ UNCHANGED <<screen, params, server, outcome, home, analysis, detail, weekly,
                   nav, fn, record>>

ReviewLoadOk(i, list) ==
    /\ screen = "review" /\ i \in InFlight("reviewLoad")
    /\ net' = Without(net, i)
    /\ review' = Applied(review,
                   [review EXCEPT !.target = Some(server.decision), !.all = list,
                                  !.reflection = getReflection(server.decision.meta),
                                  !.loading = FALSE])
    /\ UNCHANGED <<life, screen, params, server, outcome, home, analysis, detail,
                   weekly, nav, fn, record>>

ReviewLoadFail(i) ==
    /\ screen = "review" /\ i \in InFlight("reviewLoad")
    /\ net' = Without(net, i)
    /\ review' = Applied(review,
                   [review EXCEPT !.err = Some("loadFailed"), !.loading = FALSE])
    /\ UNCHANGED <<life, screen, params, server, outcome, home, analysis, detail,
                   weekly, nav, fn, record>>

\* What the screen renders.
ReviewView ==
    IF review.loading THEN "loading"
    ELSE IF review.err # None \/ review.target = None THEN "error"
    ELSE "content"

\* goHome: the error state's button, and the content's home button
\* (disabled={saving}): router.replace("/")
ReviewGoHome ==
    /\ screen = "review" /\ life = "focused" /\ ReviewView # "loading"
    /\ ReviewView = "content" => ~review.saving
    /\ life' = "unmounted"
    /\ nav' = "home"
    /\ review' = [review EXCEPT !.navigations = @ + 1]
    /\ net' = MarkStale(net)
    /\ UNCHANGED <<screen, params, server, outcome, home, analysis, detail, weekly,
                   fn, record>>

\* Where goDetail and the timer of saveReflection go: router.dismiss() when
\* the screen was pushed from Detail and the stack can be dismissed,
\* router.replace("/") from Outcome, router.replace("/detail") otherwise.
reviewLeaveTarget(from, canDismiss) ==
    IF from = "detail" /\ canDismiss THEN "dismiss"
    ELSE IF from = "outcome" THEN "home"
    ELSE "detail"

\* goDetail: the content's button (disabled={saving})
ReviewGoDetail(canDismiss) ==
    /\ screen = "review" /\ life = "focused" /\ ReviewView = "content"
    /\ ~review.saving
    /\ life' = "unmounted"
    /\ nav' = reviewLeaveTarget(review.from, canDismiss)
    /\ review' = [review EXCEPT !.navigations = @ + 1]
    /\ net' = MarkStale(net)
    /\ UNCHANGED <<screen, params, server, outcome, home, analysis, detail, weekly,
                   fn, record>>

\* The longest reflection saveReflection sends (and the TextInput's maxLength).
MaxReflection == 120

Filled(n, c) == [i \in 1..n |-> c]

\* What the user may type into the reflection input (maxLength cuts longer
\* texts).
ReflectionTexts ==
    { <<>>, <<" ">>, <<"o", "k">>, <<" ", "o", "k", " ">>,
      Filled(MaxReflection, "x") }

\* onChangeText of the reflection input (editable={!saving})
ReviewSetReflection(v) ==
    /\ screen = "review" /\ life = "focused" /\ ReviewView = "content"
    /\ ~review.saving
    /\ review' = [review EXCEPT !.reflection = v, !.banner = NoBanner]
    /\ UNCHANGED <<life, screen, params, server, outcome, home, analysis, detail,
                   weekly, net, nav, fn, record>>

\* { ...prevMeta } alone: the loaded keys are dropped.
saveReflectionMetaOnlyReflection(prevMeta, text) ==
    [NoMeta EXCEPT !.reflection = Some(text)]

\* { ...prevMeta, reflection: text }
saveReflectionMeta(prevMeta, text) ==
    [prevMeta EXCEPT !.reflection = Some(text)]

\* The callbacks of setTimeout(..., 600) that may wait at once.
MaxTimers == 2

\* The save button (disabled={saving}): saveReflection to its return on a
\* text that is too long, or to its await
ReviewSaveReflection ==
    /\ screen = "review" /\ life = "focused" /\ ReviewView = "content"
    /\ ~review.saving
    /\ review.timers < MaxTimers
    /\ LET text == Trim(review.reflection)
           target == Get(review.target)
       IN  IF Len(text) > MaxReflection
           THEN /\ review' = [review EXCEPT
                                 !.banner = [kind |-> "info", text |-> "tooLong"]]
                /\ UNCHANGED net
           ELSE /\ CanIssue
                /\ review' = [review EXCEPT !.banner = NoBanner, !.saving = TRUE]
                /\ net' = Append(net,
                             Request("reviewSaveReflection",
                                     Some([id |-> target.id,
                                           meta |-> saveReflectionMeta(target.meta,
                                                                       text)])))
    /\ UNCHANGED <<life, screen, params, server, outcome, home, analysis, detail,
                   weekly, nav, fn, record>>

\* The server stores the meta and answers with the decision; saveReflection
\* resumes: the state updates, the timer (set whether or not the screen is
\* still mounted), and finally's setSaving(false).
ReviewSaveOk(i) ==
    /\ screen = "review" /\ i \in InFlight("reviewSaveReflection")
    /\ LET body == Get(net[i].body)
           updated == [server.decision EXCEPT !.meta = body.meta]
           shown == Applied(review,
                      [review EXCEPT !.target = Some(updated),
                                     !.reflection = getReflection(updated.meta),
                                     !.banner = [kind |-> "success",
                                                 text |-> "saved"],
                                     !.saving = FALSE])
       IN  /\ server' = [server EXCEPT !.decision = updated]
           /\ review' = [shown EXCEPT !.timers = @ + 1]
    /\ net' = Without(net, i)
    /\ UNCHANGED <<life, screen, params, outcome, home, analysis, detail, weekly,
                   nav, fn, record>>

\* updateDecision rejects: showError, and finally's setSaving(false)
ReviewSaveFail(i) ==
    /\ screen = "review" /\ i \in InFlight("reviewSaveReflection")
    /\ net' = Without(net, i)
    /\ review' = Applied(review,
                   [review EXCEPT !.banner = [kind |-> "error",
                                              text |-> "saveFailed"],
                                  !.saving = FALSE])
    /\ UNCHANGED <<life, screen, params, server, outcome, home, analysis, detail,
                   weekly, nav, fn, record>>

\* 600 ms after a successful save the timer's callback runs; nothing clears
\* the timer, so it runs on a screen that was left as well.
ReviewTimerFires(canDismiss) ==
    /\ screen = "review" /\ review.timers > 0
    /\ life' = "unmounted"
    /\ nav' = reviewLeaveTarget(review.from, canDismiss)
    /\ review' = [review EXCEPT !.timers = @ - 1, !.navigations = @ + 1]
    /\ net' = MarkStale(net)
    /\ UNCHANGED <<screen, params, server, outcome, home, analysis, detail, weekly,
                   fn, record>>

----------------------------------------------------------------------------
(* Tag lists typed as one comma-separated text *)

\* String.prototype.split(",") on a non-empty text: the pieces between commas.
RECURSIVE SplitFrom(_, _)
SplitFrom(text, piece) ==
    IF text = <<>> THEN <<piece>>
    ELSE IF Head(text) = "," THEN <<piece>> \o SplitFrom(Tail(text), <<>>)
    ELSE SplitFrom(Tail(text), Append(piece, Head(text)))

SplitCommas(text) == SplitFrom(text, <<>>)

\* .map((t) => t.trim()).filter(Boolean)
TrimmedNonEmpty(pieces) ==
    SelectSeq([i \in DOMAIN pieces |-> Trim(pieces[i])], LAMBDA t : t # <<>>)

\* Array.from(new Set(arr)): a Set keeps the first insertion of each value.
RECURSIVE FromSet(_)
FromSet(arr) ==
    IF arr = <<>> THEN <<>>
    ELSE LET front == FromSet(SubSeq(arr, 1, Len(arr) - 1))
             last  == arr[Len(arr)]
         IN  IF \E i \in DOMAIN front : front[i] = last THEN front
             ELSE Append(front, last)

\* record.tsx, buildPayload: tags ? tags.split(",").map(trim).filter(Boolean) : []
tagsValue(tags) ==
    IF tags = <<>> THEN <<>> ELSE TrimmedNonEmpty(SplitCommas(tags))

\* decision/[id].tsx, parseTags
parseTags(input) == FromSet(TrimmedNonEmpty(SplitCommas(input)))

\* String.prototype.toUpperCase on the letters the model types
ToUpperCase(text) ==
    [i \in DOMAIN text |->
        IF text[i] = "a" THEN "A" ELSE IF text[i] = "b" THEN "B"
        ELSE IF text[i] = "t" THEN "T" ELSE text[i]]

----------------------------------------------------------------------------
(* app/detail.tsx: DetailScreen *)

\* Array.prototype.join(", ")
RECURSIVE JoinTags(_)
JoinTags(tags) ==
    IF tags = <<>> THEN <<>>
    ELSE IF Len(tags) = 1 THEN tags[1]
    ELSE tags[1] \o <<",", " ">> \o JoinTags(Tail(tags))

DetailInitial ==
    [ loading |-> TRUE, saving |-> FALSE, decision |-> None,
      categoryId |-> "daily", title |-> <<>>, notes |-> <<>>, tags |-> <<>>,
      confidence |-> 3, result |-> "pending",
      symbol |-> "", action |-> "buy", marketCondition |-> "uncertain",
      entryPrice |-> <<>>, exitPrice |-> <<>>, dialog |-> None, toast |-> None ]

\* openDialog({ title, message }): cancelText defaults to the cancel label
openDialog(title, message) ==
    Some([title |-> title, message |-> message, cancelText |-> "cancel"])

\* The effect on [categoryId]: leaving invest clears the invest inputs.
DetailCategoryEffect(old, new) ==
    IF new.categoryId # old.categoryId /\ new.categoryId # "invest"
    THEN [new EXCEPT !.symbol = "", !.action = "buy", !.marketCondition = "uncertain",
                     !.entryPrice = <<>>, !.exitPrice = <<>>]
    ELSE new

\* The state updates of load for a decision d
DetailLoaded(dt, d) ==
    LET m == d.meta
    IN  [dt EXCEPT
           !.decision = Some(d),
           !.categoryId = d.categoryId,
           !.title = d.title,
           !.notes = IF d.notes # None THEN Get(d.notes) ELSE <<>>,
           !.tags = JoinTags(d.tags),
           !.confidence = d.confidence,
           !.result = d.result,
           !.symbol = IF m.symbol # None THEN Get(m.symbol) ELSE "",
           !.action = IF m.action = Some("sell") THEN "sell" ELSE "buy",
           !.marketCondition =
               IF m.marketCondition \in {Some("bull"), Some("bear"), Some("sideways"),
                                         Some("uncertain")}
               THEN Get(m.marketCondition) ELSE "uncertain",
           !.entryPrice = IF m.entryPrice # None
                          THEN NumberToText(Get(m.entryPrice)) ELSE <<>>,
           !.exitPrice = IF m.exitPrice # None
                         THEN NumberToText(Get(m.exitPrice)) ELSE <<>>]

\* useFocusEffect: load() to its await, or to its early return without an id
DetailFocus ==
    /\ screen = "detail" /\ life = "mounted"
    /\ life' = "focused"
    /\ IF params.id = None
       THEN UNCHANGED <<detail, net>>
       ELSE /\ CanIssue
            /\ detail' = [detail EXCEPT !.loading = TRUE]
            /\ net' = Append(net, Request("detailLoad", None))
    /\ UNCHANGED <<screen, params, server, outcome, home, analysis, review, weekly,
                   nav, fn, record>>

\* load resumed with the decision: nothing when mountedRef is false
DetailLoadOk(i) ==
    /\ screen = "detail" /\ i \in InFlight("detailLoad")
    /\ net' = Without(net, i)
    /\ detail' =
         IF ~net[i].alive THEN detail
         ELSE Applied(detail,
                DetailCategoryEffect(detail,
                  [DetailLoaded(detail, server.decision) EXCEPT !.loading = FALSE]))
    /\ UNCHANGED <<life, screen, params, server, outcome, home, analysis, review,
                   weekly, nav, fn, record>>

\* load's catch: openDialog and router.replace("/") whatever mountedRef says,
\* then finally. replace swaps the screen on top of the stack.
DetailLoadFail(i) ==
    /\ screen = "detail" /\ i \in InFlight("detailLoad")
    /\ net' = MarkStale(Without(net, i))
    /\ detail' = Applied(detail,
                   [detail EXCEPT !.dialog = openDialog("error", "loadFailed"),
                                  !.loading = IF net[i].alive THEN FALSE ELSE @])
    /\ nav' = "home"
    /\ life' = IF life = "focused" THEN "unmounted" ELSE life
    /\ UNCHANGED <<screen, params, server, outcome, home, analysis, review, weekly, fn, record>>

\* What the screen renders.
DetailView ==
    IF params.id = None THEN "noId"
    ELSE IF detail.loading THEN "loading"
    ELSE "content"

\* The reflection card / the review button: router.push("/review")
DetailBlur ==
    /\ screen = "detail" /\ life = "focused" /\ DetailView = "content"
    /\ life' = "mounted"
    /\ nav' = "push"
    /\ net' = MarkStale(net)
    /\ UNCHANGED <<screen, params, server, outcome, loadVars, fn, record>>

\* The no-id screen's home button: router.replace("/")
DetailGoHome ==
    /\ screen = "detail" /\ life = "focused" /\ DetailView = "noId"
    /\ life' = "unmounted"
    /\ nav' = "home"
    /\ net' = MarkStale(net)
    /\ UNCHANGED <<screen, params, server, outcome, loadVars, fn, record>>

\* The requests of the Detail screen.
DetailOps == {"detailLoad", "detailSaveResult", "detailSaveMeta", "detailDelete"}

\* The unmount effect: mountedRef.current = false
DetailCleanup(q) ==
    [i \in DOMAIN q |->
        IF q[i].op \in DetailOps THEN [q[i] EXCEPT !.alive = FALSE] ELSE q[i]]

\* openDialog({ title, message, confirmText, onConfirm }): a confirm dialog
openConfirm(title, message, confirmText, onConfirm) ==
    Some([title |-> title, message |-> message, cancelText |-> "cancel",
          confirmText |-> confirmText, onConfirm |-> onConfirm])

\* The content is rendered and no dialog (a Modal) covers it.
DetailContent ==
    /\ screen = "detail" /\ life = "focused"
    /\ DetailView = "content"
    /\ detail.dialog = None

resultButtonsDisabledUnlessPending(d) == d.saving \/ d.result # "pending"

\* The buttons left enabled while a request is in flight.
resultButtonsNeverDisabled(d) == FALSE

\* disabled={saving} of the result, revert, confidence and delete buttons
resultButtonsDisabled(d) == d.saving

\* A confidence button: setConfidence(v)
DetailSetConfidence(v) ==
    /\ DetailContent /\ ~resultButtonsDisabled(detail)
    /\ detail' = [detail EXCEPT !.confidence = v]
    /\ UNCHANGED <<life, screen, params, server, outcome, home, analysis, review,
                   weekly, net, nav, fn, record>>

\* onSaveResult(next) to its await: setSaving(true); updateDecisionResult(id,
\* { result: next, confidence })
onSaveResult(next) ==
    /\ detail' = [detail EXCEPT !.saving = TRUE, !.dialog = None]
    /\ net' = Append(net, Request("detailSaveResult",
                                  Some([result |-> next,
                                        confidence |-> detail.confidence])))

\* A result button: onSaveResult("positive" | "negative" | "neutral")
DetailSaveResult(next) ==
    /\ DetailContent /\ ~resultButtonsDisabled(detail) /\ CanIssue
    /\ onSaveResult(next)
    /\ UNCHANGED <<life, screen, params, server, outcome, home, analysis, review,
                   weekly, nav, fn, record>>

\* The revert button: a confirm dialog whose onConfirm is onSaveResult("pending")
DetailRevertPress ==
    /\ DetailContent /\ ~resultButtonsDisabled(detail)
    /\ detail' = [detail EXCEPT !.dialog =
                     openConfirm("revert", "revertQuestion", "revert", "onSaveResult")]
    /\ UNCHANGED <<life, screen, params, server, outcome, home, analysis, review,
                   weekly, net, nav, fn, record>>

\* A delete button that calls doDelete() itself.
DetailDeleteImmediately ==
    /\ DetailContent /\ ~resultButtonsDisabled(detail) /\ CanIssue
    /\ detail' = [detail EXCEPT !.saving = TRUE]
    /\ net' = Append(net, Request("detailDelete", None))
    /\ UNCHANGED <<life, screen, params, server, outcome, home, analysis, review,
                   weekly, nav, fn, record>>

\* The delete button: a confirm dialog whose onConfirm is doDelete()
DetailDeletePress ==
    /\ DetailContent /\ ~resultButtonsDisabled(detail)
    /\ detail' = [detail EXCEPT !.dialog =
                     openConfirm("delete", "deleteQuestion", "delete", "doDelete")]
    /\ UNCHANGED <<life, screen, params, server, outcome, home, analysis, review,
                   weekly, net, nav, fn, record>>

\* The dialog is shown: the Modal is part of the content view.
DetailDialogShown ==
    /\ screen = "detail" /\ life = "focused"
    /\ DetailView = "content"
    /\ detail.dialog # None

\* closeDialog: the cancel / close button, the backdrop, the back key
DetailDialogClose ==
    /\ DetailDialogShown
    /\ detail' = [detail EXCEPT !.dialog = None]
    /\ UNCHANGED <<life, screen, params, server, outcome, home, analysis, review,
                   weekly, net, nav, fn, record>>

\* The confirm button: closeDialog(); await action()
DetailDialogConfirm ==
    /\ DetailDialogShown
    /\ "onConfirm" \in DOMAIN Get(detail.dialog)
    /\ CanIssue
    /\ IF Get(detail.dialog).onConfirm = "onSaveResult"
       THEN onSaveResult("pending")
       ELSE /\ detail' = [detail EXCEPT !.saving = TRUE, !.dialog = None]
            /\ net' = Append(net, Request("detailDelete", None))
    /\ UNCHANGED <<life, screen, params, server, outcome, home, analysis, review,
                   weekly, nav, fn, record>>

\* The server applies the PATCH and answers with the decision; onSaveResult
\* resumes: nothing but finally's guarded setSaving when mountedRef is false.
DetailSaveResultOk(i) ==
    /\ screen = "detail" /\ i \in InFlight("detailSaveResult")
    /\ LET body == Get(net[i].body)
           updated == [server.decision EXCEPT !.result = body.result,
                                              !.confidence = body.confidence]
       IN  /\ server' = [server EXCEPT !.decision = updated]
           /\ detail' =
                 IF ~net[i].alive THEN detail
                 ELSE Applied(detail,
                        [detail EXCEPT !.decision = Some(updated),
                                       !.result = updated.result,
                                       !.confidence = updated.confidence,
                                       !.saving = FALSE])
    /\ net' = Without(net, i)
    /\ UNCHANGED <<life, screen, params, outcome, home, analysis, review, weekly,
                   nav, fn, record>>

\* onSaveResult's catch and finally
DetailSaveResultFail(i) ==
    /\ screen = "detail" /\ i \in InFlight("detailSaveResult")
    /\ net' = Without(net, i)
    /\ detail' = Applied(detail,
                   [detail EXCEPT !.dialog = openDialog("error", "resultUpdateFailed"),
                                  !.saving = IF net[i].alive THEN FALSE ELSE @])
    /\ UNCHANGED <<life, screen, params, server, outcome, home, analysis, review,
                   weekly, nav, fn, record>>

\* doDelete resumed: goBack() takes the screen off the stack (router.back(),
\* or router.replace("/") when there is nothing to go back to), then finally
DetailDeleteOk(i, canGoBack) ==
    /\ screen = "detail" /\ i \in InFlight("detailDelete")
    /\ detail' = Applied(detail,
                   [detail EXCEPT !.saving = IF net[i].alive THEN FALSE ELSE @])
    /\ life' = "unmounted"
    /\ nav' = IF canGoBack THEN "back" ELSE "home"
    /\ net' = MarkStale(DetailCleanup(Without(net, i)))
    /\ UNCHANGED <<screen, params, server, outcome, home, analysis, review, weekly, fn, record>>

\* doDelete's catch and finally
DetailDeleteFail(i) ==
    /\ screen = "detail" /\ i \in InFlight("detailDelete")
    /\ net' = Without(net, i)
    /\ detail' = Applied(detail,
                   [detail EXCEPT !.dialog = openDialog("error", "deleteFailed"),
                                  !.saving = IF net[i].alive THEN FALSE ELSE @])
    /\ UNCHANGED <<life, screen, params, server, outcome, home, analysis, review,
                   weekly, nav, fn, record>>

----------------------------------------------------------------------------
(* app/detail.tsx: DetailScreen, editing the decision *)

\* What the user may type into the title and tags inputs.
DetailTitles == { <<>>, <<" ">>, <<" ", "t">> }

DetailTags == { <<",", " ">>, <<"b", ",", "a", ",", " ", "b">> }

\* A category chip: setCategoryId(c.id), then the effect on [categoryId]
DetailSetCategory(c) ==
    /\ DetailContent /\ ~detail.saving
    /\ detail' = DetailCategoryEffect(detail, [detail EXCEPT !.categoryId = c])
    /\ UNCHANGED <<life, screen, params, server, outcome, home, analysis, review,
                   weekly, net, nav, fn, record>>

\* onChangeText={setTitle}
DetailSetTitle(v) ==
    /\ DetailContent /\ ~detail.saving
    /\ detail' = [detail EXCEPT !.title = v]
    /\ UNCHANGED <<life, screen, params, server, outcome, home, analysis, review,
                   weekly, net, nav, fn, record>>

\* onChangeText={setTags}
DetailSetTags(v) ==
    /\ DetailContent /\ ~detail.saving
    /\ detail' = [detail EXCEPT !.tags = v]
    /\ UNCHANGED <<life, screen, params, server, outcome, home, analysis, review,
                   weekly, net, nav, fn, record>>

\* onSaveMeta's checks: the message of the dialog opened, None when they pass.
\* The symbols of the model hold no white space, so symbol.trim() is symbol.
saveMetaRejection(d) ==
    LET invest == d.categoryId = "invest"
    IN  IF Trim(d.title) = <<>> THEN Some("titleRequired")
        ELSE IF invest /\ d.symbol = "" THEN Some("symbolRequired")
        ELSE IF invest /\ Trim(d.entryPrice) = <<>> THEN Some("entryPriceRequired")
        ELSE IF invest /\ parseNumberInput(d.entryPrice) = None
             THEN Some("entryPriceNumber")
        ELSE None

\* The body of updateDecision(id, {...}); an absent field (undefined) is None.
\* ...(decision?.meta ?? {}) keeps the reflection of the loaded decision.
saveMetaBody(d) ==
    LET invest     == d.categoryId = "invest"
        entryNum == parseNumberInput(d.entryPrice)
        exitNum  == parseNumberInput(d.exitPrice)
        loadedMeta == IF d.decision = None THEN NoMeta ELSE Get(d.decision).meta
    IN  [ categoryId |-> d.categoryId,
          title |-> Trim(d.title),
          notes |-> IF Trim(d.notes) # <<>> THEN Some(Trim(d.notes)) ELSE None,
          tags |-> parseTags(d.tags),
          confidence |-> d.confidence,
          meta |-> IF invest
                   THEN Some([ symbol |-> Some(d.symbol),
                               action |-> Some(d.action),
                               marketCondition |-> Some(d.marketCondition),
                               entryPrice |-> entryNum,
                               exitPrice |-> exitNum,
                               returnRate |->
                                   IF entryNum # None /\ exitNum # None
                                   THEN calcReturnRateDetail(Get(entryNum),
                                                             Get(exitNum), d.action)
                                   ELSE None,
                               reflection |-> loadedMeta.reflection ])
                   ELSE None ]

\* The save button: onSaveMeta to its first return or to its await
DetailSaveMeta ==
    /\ DetailContent /\ ~detail.saving
    /\ IF saveMetaRejection(detail) # None
       THEN /\ detail' = [detail EXCEPT !.dialog =
                             openDialog("inputNeeded", Get(saveMetaRejection(detail)))]
            /\ UNCHANGED net
       ELSE /\ CanIssue
            /\ detail' = [detail EXCEPT !.saving = TRUE]
            /\ net' = Append(net, Request("detailSaveMeta", Some(saveMetaBody(detail))))
    /\ UNCHANGED <<life, screen, params, server, outcome, home, analysis, review,
                   weekly, nav, fn, record>>

\* The server applies the PATCH (a body without meta leaves the meta alone)
\* and answers with the decision; onSaveMeta resumes: nothing but finally's
\* guarded setSaving when mountedRef is false.
DetailSaveMetaOk(i) ==
    /\ screen = "detail" /\ i \in InFlight("detailSaveMeta")
    /\ LET body == Get(net[i].body)
           updated == [server.decision EXCEPT
                          !.categoryId = body.categoryId,
                          !.title = body.title,
                          !.notes = body.notes,
                          !.tags = body.tags,
                          !.confidence = body.confidence,
                          !.meta = IF body.meta = None THEN @
                                   ELSE [f \in DOMAIN NoMeta |-> Get(body.meta)[f]]]
       IN  /\ server' = [server EXCEPT !.decision = updated]
           /\ detail' =
                 IF ~net[i].alive THEN detail
                 ELSE Applied(detail,
                        [detail EXCEPT !.decision = Some(updated),
                                       !.result = updated.result,
                                       !.confidence = updated.confidence,
                                       !.toast = Some("saved"),
                                       !.saving = FALSE])
    /\ net' = Without(net, i)
    /\ UNCHANGED <<life, screen, params, outcome, home, analysis, review, weekly,
                   nav, fn, record>>

\* onSaveMeta's catch and finally
DetailSaveMetaFail(i) ==
    /\ screen = "detail" /\ i \in InFlight("detailSaveMeta")
    /\ net' = Without(net, i)
    /\ detail' = Applied(detail,
                   [detail EXCEPT !.dialog = openDialog("error", "saveFailed"),
                                  !.saving = IF net[i].alive THEN FALSE ELSE @])
    /\ UNCHANGED <<life, screen, params, server, outcome, home, analysis, review,
                   weekly, nav, fn, record>>

\* showToast's timer: setTimeout(() => setToast(null), waitTime)
DetailToastExpire ==
    /\ screen = "detail" /\ detail.toast # None
    /\ detail' = [detail EXCEPT !.toast = None]
    /\ UNCHANGED <<life, screen, params, server, outcome, home, analysis, review,
                   weekly, net, nav, fn, record>>

----------------------------------------------------------------------------
(* app/weekly-report.tsx: dates *)

\* A Date is an instant in minutes since 1970-01-01T00:00Z. The device's zone
\* is a fixed offset: local time = UTC + off minutes.
MinutesPerDay == 24 * 60

\* The local calendar day of an instant, counted from 1970-01-01.
LocalDay(date, off) == (date + off) \div MinutesPerDay

\* Date.prototype.getDay: 0 is Sunday; 1970-01-01 was a Thursday.
getDay(date, off) == (LocalDay(date, off) + 4) % 7

\* setDate(getDate() - diff) then setHours(0, 0, 0, 0): local midnight
startOfWeek(date, off) ==
    LET diff == (getDay(date, off) + 6) % 7
    IN  (LocalDay(date, off) - diff) * MinutesPerDay - off

\* setDate(getDate() + days): the same local time of day, days later
addDays(date, days) == date + days * MinutesPerDay

\* The proleptic Gregorian date <<year, month, day>> of a day counted from
\* 1970-01-01: the fields of the text YYYY-MM-DD.
CivilFromDays(days) ==
    LET z == days + 719468
        era == z \div 146097
        doe == z - era * 146097
        yoe == (doe - doe \div 1460 + doe \div 36524 - doe \div 146096) \div 365
        doy == doe - (365 * yoe + yoe \div 4 - yoe \div 100)
        mp == (5 * doy + 2) \div 153
        d == doy - (153 * mp + 2) \div 5 + 1
        m == IF mp < 10 THEN mp + 3 ELSE mp - 9
        y == yoe + era * 400 + (IF m <= 2 THEN 1 ELSE 0)
    IN  <<y, m, d>>

\* toISOString().slice(0, 10): the date in UTC
isoDate(date) == CivilFromDays(date \div MinutesPerDay)

\* useState(() => startOfWeek(new Date())), addDays(weekStart, -7), and the
\* weekStart parameters of the two fetchWeeklyReport calls of load
WeekStartsSent(now, off) ==
    LET weekStart == startOfWeek(now, off)
        prevWeekStart == addDays(weekStart, 0 - 7)
    IN  [current |-> isoDate(weekStart), previous |-> isoDate(prevWeekStart)]

----------------------------------------------------------------------------
(* app/weekly-report.tsx: WeeklyReportScreen (load) *)

\* A WeeklyReportResponse, as far as the screen's numbers read it; every
\* number is a JSON value.
Report(total, completed, pending, positive, negative, neutral, average, byLevel) ==
    [ counts |-> [total |-> total, completed |-> completed, pending |-> pending],
      resultCounts |-> [positive |-> positive, negative |-> negative,
                        neutral |-> neutral],
      confidence |-> [average |-> average, byLevel |-> byLevel] ]

Row(confidence, total, positiveRate) ==
    [confidence |-> confidence, total |-> total, positiveRate |-> positiveRate]

\* The report of a week with the given numbers of decisions per result.
WeekOf(positive, negative, neutral, pending, average, byLevel) ==
    Report(Num(positive + negative + neutral + pending),
           Num(positive + negative + neutral), Num(pending),
           Num(positive), Num(negative), Num(neutral), average, byLevel)

\* The weekly reports the server may return in this model.
ServerReports ==
    { WeekOf(4, 5, 1, 0, Num(4),
             << Row(5, Num(3), Num(67)), Row(3, Num(5), Num(40)) >>),
      WeekOf(1, 2, 1, 2, Num(3), << Row(3, Num(4), Num(25)) >>),
      WeekOf(1, 2, 1, 0, Num(2), <<>>) }

\* A report whose numbers are absent or not numbers.
BrokenReport ==
    Report(Missing, NotNumber, Num(1), Missing, Num(2), NotNumber, Missing,
           << Row(3, Missing, NotNumber) >>)

safeNumberOne(v) == IF v[1] = "number" THEN v[2] ELSE 1

\* safeNumber(v, fallback = 0); every call leaves the fallback to its default
safeNumber(v) == IF v[1] = "number" THEN v[2] ELSE 0

\* current?.counts?.total and the like, for the state current: Report | null
Field(r, group, name) == IF r = None THEN Missing ELSE Get(r)[group][name]

\* rows.sort((a, b) => a.confidence - b.confidence): stable, ascending
RECURSIVE SortRows(_)
SortRows(rows) ==
    IF rows = <<>> THEN <<>>
    ELSE LET rest == SortRows(Tail(rows))
             NotAfter(r) == r.confidence < Head(rows).confidence
             After(r) == ~NotAfter(r)
         IN  SelectSeq(rest, NotAfter) \o <<Head(rows)>> \o SelectSeq(rest, After)

\* currentSummary / previousSummary, as far as delta reads them
Summary(r) ==
    LET counts == [ total |-> safeNumber(Field(r, "counts", "total")),
                    completed |-> safeNumber(Field(r, "counts", "completed")),
                    pending |-> safeNumber(Field(r, "counts", "pending")) ]
        byLevel == IF r = None THEN <<>> ELSE Get(r).confidence.byLevel
    IN  [ counts |-> counts,
          resultCounts |->
              [ positive |-> safeNumber(Field(r, "resultCounts", "positive")),
                negative |-> safeNumber(Field(r, "resultCounts", "negative")),
                neutral |-> safeNumber(Field(r, "resultCounts", "neutral")),
                pending |-> counts.pending ],
          confidenceAvg |-> safeNumber(Field(r, "confidence", "average")),
          confidenceRows |->
              SortRows([ i \in DOMAIN byLevel |->
                           [ confidence |-> byLevel[i].confidence,
                             total |-> safeNumber(byLevel[i].total),
                             positiveRate |-> safeNumber(byLevel[i].positiveRate) ] ]) ]

\* A rational number p/q is the pair <<p, q>> with q > 0.
RatSub(a, b) == <<a[1] * b[2] - b[1] * a[2], a[2] * b[2]>>

RatEq(a, b) == a[1] * b[2] = b[1] * a[2]

\* (count / total) * 100, 0 when total <= 0
calcRate(count, total) == IF total <= 0 THEN <<0, 1>> ELSE <<count * 100, total>>

\* rows.find((r) => r.confidence === level)?.[name], undefined when no row
FindRow(rows, level, name) ==
    LET found == SelectSeq(rows, LAMBDA r : r.confidence = level)
    IN  IF found = <<>> THEN Missing ELSE Num(found[1][name])

\* The useMemo "delta"
delta(currentSummary, previousSummary) ==
    LET c == currentSummary
        p == previousSummary
        RateDelta(name) ==
            RatSub(calcRate(c.resultCounts[name], c.counts.total),
                   calcRate(p.resultCounts[name], p.counts.total))
    IN  [ countDelta |->
              [ total |-> c.counts.total - p.counts.total,
                completed |-> c.counts.completed - p.counts.completed,
                pending |-> c.counts.pending - p.counts.pending ],
          resultDelta |->
              [ name \in {"positive", "negative", "neutral", "pending"} |->
                  c.resultCounts[name] - p.resultCounts[name] ],
          resultRateDelta |->
              [ name \in {"positive", "negative", "neutral", "pending"} |->
                  RateDelta(name) ],
          confidenceDelta |-> [average |-> c.confidenceAvg - p.confidenceAvg],
          confidenceLevelDelta |->
              [ level \in 1..5 |->
                  [ confidence |-> level,
                    totalDelta |->
                        safeNumber(FindRow(c.confidenceRows, level, "total"))
                        - safeNumber(FindRow(p.confidenceRows, level, "total")),
                    positiveRateDelta |->
                        safeNumber(FindRow(c.confidenceRows, level, "positiveRate"))
                        - safeNumber(FindRow(p.confidenceRows, level, "positiveRate")) ] ] ]

WeeklyInitial ==
    [ current |-> None, previous |-> None, oldestPending |-> None,
      loading |-> TRUE, refreshing |-> FALSE, errorMsg |-> None ]

\* The oldest of a non-empty pending list; the lists of the model are in
\* creation order, so reduce keeps the first.
OldestOf(list) == IF list = <<>> THEN None ELSE Some(list[1])

\* useFocusEffect: load() to its await
WeeklyFocus ==
    /\ screen = "weekly" /\ life = "mounted" /\ CanIssue
    /\ life' = "focused"
    /\ weekly' = [weekly EXCEPT !.errorMsg = None, !.loading = TRUE]
    /\ net' = Append(net, Request("weeklyLoad", None))
    /\ UNCHANGED <<screen, params, server, outcome, home, analysis, review, detail,
                   nav, fn, record>>

\* onRefresh to its await
WeeklyRefresh ==
    /\ screen = "weekly" /\ life = "focused" /\ CanIssue
    /\ ~(weekly.loading /\ weekly.current = None)
    /\ weekly' = [weekly EXCEPT !.errorMsg = None, !.loading = TRUE, !.refreshing = TRUE]
    /\ net' = Append(net, Request("weeklyRefresh", None))
    /\ UNCHANGED <<life, screen, params, server, outcome, home, analysis, review,
                   detail, nav, fn, record>>

\* load resumed with both reports; pendingList is empty also when
\* fetchPendingDecisions failed (its catch gives null)
WeeklyLoadOk(i, currentRes, prevRes, pendingList) ==
    /\ screen = "weekly" /\ i \in InFlight("weeklyLoad") \cup InFlight("weeklyRefresh")
    /\ net' = Without(net, i)
    /\ weekly' = Applied(weekly,
                   [weekly EXCEPT !.current = Some(currentRes),
                                  !.previous = Some(prevRes),
                                  !.oldestPending = OldestOf(pendingList),
                                  !.loading = FALSE,
                                  !.refreshing = IF net[i].op = "weeklyRefresh"
                                                 THEN FALSE ELSE @])
    /\ UNCHANGED <<life, screen, params, server, outcome, home, analysis, review,
                   detail, nav, fn, record>>

WeeklyLoadFail(i) ==
    /\ screen = "weekly" /\ i \in InFlight("weeklyLoad") \cup InFlight("weeklyRefresh")
    /\ net' = Without(net, i)
    /\ weekly' = Applied(weekly,
                   [weekly EXCEPT !.errorMsg = Some("loadFailed"),
                                  !.loading = FALSE,
                                  !.refreshing = IF net[i].op = "weeklyRefresh"
                                                 THEN FALSE ELSE @])
    /\ UNCHANGED <<life, screen, params, server, outcome, home, analysis, review,
                   detail, nav, fn, record>>

----------------------------------------------------------------------------
(* The stack navigator *)

\* The header's back button or the system back gesture: the screen on top
\* unmounts (Home is the root and has none).
Back ==
    /\ screen \in {"analysis", "review", "detail", "weekly"}
    /\ life = "focused"
    /\ life' = "unmounted"
    /\ nav' = "back"
    /\ net' = MarkStale(DetailCleanup(net))
    /\ UNCHANGED <<screen, params, server, outcome, loadVars, fn, record>>

----------------------------------------------------------------------------
(* app/review.tsx: the statistics of ReviewScreen *)

\* Math.floor of a finite number, else the fallback
safeInt(v, fallback) ==
    IF v[1] = "number" THEN v[2]
    ELSE IF v[1] = "halves" THEN v[2] \div 2
    ELSE fallback

Max(a, b) == IF a >= b THEN a ELSE b

Min(a, b) == IF a <= b THEN a ELSE b

clampNone(v) == v

clamp1to5(v) == Max(1, Min(5, v))

isCompletedIncludingPending(d) == TRUE

isCompleted(d) == d.result # "pending"

isPositive(d) == d.result = "positive"

\* total > 0 ? positive / total : 0, held as the fraction <<numerator, denominator>>
Rate01(positive, total) == IF total > 0 THEN <<positive, total>> ELSE <<0, 1>>

\* The useMemo "stats" for a loaded target
stats(all, target) ==
    LET completed == SelectSeq(all, isCompleted)
        overallTotal == Len(completed)
        overallPositive == Len(SelectSeq(completed, isPositive))
        SameCategory(d) == d.categoryId = target.categoryId
        sameCat == SelectSeq(completed, SameCategory)
        catTotal == Len(sameCat)
        catPositive == Len(SelectSeq(sameCat, isPositive))
        myConf == clamp1to5(safeInt(target.confidence, 3))
        SameConfidence(d) == clamp1to5(safeInt(d.confidence, 3)) = myConf
        sameConf == SelectSeq(completed, SameConfidence)
        confTotal == Len(sameConf)
        confPositive == Len(SelectSeq(sameConf, isPositive))
    IN  [ myConfidence |-> myConf,
          overall |-> [total |-> overallTotal,
                       rate |-> Rate01(overallPositive, overallTotal)],
          category |-> [total |-> catTotal, rate |-> Rate01(catPositive, catTotal)],
          confidence |-> [total |-> confTotal,
                          rate |-> Rate01(confPositive, confTotal)] ]

\* The decisions of the lists given to stats: what stats reads of a Decision.
StatDecisions ==
    [ categoryId : {"invest", "daily"},
      result : {"pending", "positive", "negative"},
      confidence : {Num(7), Missing} ]

StatLists == UNION { [1..n -> StatDecisions] : n \in 0..MaxList }

StatTargets ==
    [ categoryId : {"invest", "work"}, result : {"pending"},
      confidence : {Num(3), Num(9), NotNumber} ]

----------------------------------------------------------------------------
(* The pure functions, applied to inputs drawn at the start *)

FnIdle == [op |-> "idle"]

\* No screen is mounted while a function is applied.
Parked ==
    /\ screen = "none"
    /\ life = "unmounted"
    /\ params = [id |-> None, categoryId |-> None]
    /\ server \in [decision : {Decision("d1", "daily", "pending", 3, NoMeta)}]
    /\ outcome = OutcomeInitial
    /\ net = <<>>
    /\ nav = "none"

FnVars == <<life, screen, params, server, outcome, net, nav, record, loadVars>>

InitStats ==
    \E all \in StatLists, target \in StatTargets :
        fn = [op |-> "stats", all |-> all, target |-> target, out |-> None]

ApplyStats ==
    /\ fn.op = "stats" /\ fn.out = None
    /\ fn' = [fn EXCEPT !.out = Some(stats(fn.all, fn.target))]
    /\ UNCHANGED FnVars

\* Decisions whose confidence is missing, not a number, not an integer or
\* outside 1..5, besides ordinary ones.
BucketDecisions ==
    [ categoryId : {"daily"},
      result : {"pending", "positive"},
      confidence : {Num(0), Num(3), Num(7), NumHalves(5), NumHalves(0 - 1), Missing,
                    NotNumber} ]

InitBuckets ==
    \E all \in UNION { [1..n -> BucketDecisions] : n \in 0..MaxList } :
        fn = [op |-> "buckets", all |-> all, out |-> None]

\* stats evaluated for a target of each confidence 1..5 over the same list
ApplyBuckets ==
    /\ fn.op = "buckets" /\ fn.out = None
    /\ fn' = [fn EXCEPT !.out =
                 Some([ level \in 1..5 |->
                          stats(fn.all, [categoryId |-> "daily", result |-> "pending",
                                         confidence |-> Num(level)]) ])]
    /\ UNCHANGED FnVars

----------------------------------------------------------------------------
(* components/TagSelector.tsx *)

MAX == 5

TAGS == { <<"t1", "t2", "t3", "t4", "t5", "t6", "t7", "t8", "t9", "t10">>[i] :
            i \in 1..MaxTags }

\* selected.includes(tag)
Includes(selected, tag) == \E i \in DOMAIN selected : selected[i] = tag

toggleNoCap(selected, tag) ==
    IF Includes(selected, tag)
    THEN Some(SelectSeq(selected, LAMBDA t : t # tag))
    ELSE Some(Append(selected, tag))

\* toggle(tag): the argument of its onChange call, None when it returns
\* without calling
toggle(selected, tag) ==
    IF Includes(selected, tag)
    THEN Some(SelectSeq(selected, LAMBDA t : t # tag))
    ELSE IF Len(selected) >= MAX THEN None
    ELSE Some(Append(selected, tag))

Distinct(seq) == \A i, j \in DOMAIN seq : seq[i] = seq[j] => i = j

\* The prop selected at the start: at most MAX distinct tags.
InitTagSelector ==
    \E selected \in UNION { [1..n -> TAGS] : n \in 0..MAX } :
        /\ Distinct(selected)
        /\ fn = [op |-> "tags", selected |-> selected, tag |-> None, changed |-> None]

\* A press on a tag; the parent stores what onChange hands it and renders the
\* selector with it.
TagPress(tag) ==
    /\ fn.op = "tags"
    /\ LET changed == toggle(fn.selected, tag)
       IN  fn' = [fn EXCEPT !.tag = Some(tag), !.changed = changed,
                            !.selected = IF changed = None THEN @ ELSE Get(changed)]
    /\ UNCHANGED FnVars

\* 16 -> 17 is a change of 6.25 %: 62.5 tenths of a percent, halfway.
ReturnRatePrices == (0 - 1)..MaxPrice \cup {16, 17, 72000, 76000}

InitCalcReturnRate ==
    \E entry \in ReturnRatePrices, exit \in ReturnRatePrices, action \in {"buy", "sell"} :
        fn = [op |-> "calcReturnRate", entry |-> entry, exit |-> exit,
              action |-> action, out |-> None]

ApplyCalcReturnRate ==
    /\ fn.op = "calcReturnRate" /\ fn.out = None
    /\ fn' = [fn EXCEPT !.out =
                 Some([outcome |-> calcReturnRate(fn.entry, fn.exit, fn.action),
                       detail |-> calcReturnRateDetail(fn.entry, fn.exit, fn.action)])]
    /\ UNCHANGED FnVars


----------------------------------------------------------------------------
(* app/record.tsx: RecordScreen *)

\* useState initial values
RecordInitial ==
    [ categoryId |-> "invest", title |-> <<>>, notes |-> <<>>, tags |-> <<>>,
      confidence |-> 3, symbol |-> <<>>, action |-> "buy",
      marketCondition |-> "uncertain", entryPrice |-> <<>>,
      loading |-> FALSE, banner |-> NoBanner,
      awaiting |-> "none" ]   \* the save handler suspended at its await

\* What the user may type into the text inputs.
RecordTitles == { <<>>, <<" ">>, <<" ", "T", " ">> }

RecordNotes == { <<>>, <<"n", " ">> }

RecordTags == { <<>>, <<" ", ",">>, <<"a", ",", " ", "a">>, <<"b", ",", ",", "a">> }

RecordSymbols == { <<>>, <<" ", "a">> }

RecordPrices == { <<>>, <<"x">>, <<"7", "2">> }

RecordCategories == {"invest", "daily"}

\* const isInvest = categoryId === "invest"
recordIsInvest(r) == r.categoryId = "invest"

\* useEffect on [isInvest]: the invest inputs are reset when the category is
\* not invest.
RecordCategoryEffect(r) ==
    IF recordIsInvest(r) THEN r
    ELSE [r EXCEPT !.symbol = <<>>, !.action = "buy",
                   !.marketCondition = "uncertain", !.entryPrice = <<>>]

RecordIdle == screen = "record" /\ life = "focused" /\ ~record.loading

RecordOnly == <<life, screen, params, server, outcome, net, nav, fn, loadVars>>

\* A category chip: setCategoryId(c.id); clearBanner(); then the effect
RecordSetCategory(c) ==
    /\ RecordIdle
    /\ record' = RecordCategoryEffect([record EXCEPT !.categoryId = c,
                                                    !.banner = NoBanner])
    /\ UNCHANGED RecordOnly

\* The title, notes and tags inputs: setX(v); clearBanner()
RecordSetTitle(v) ==
    /\ RecordIdle
    /\ record' = [record EXCEPT !.title = v, !.banner = NoBanner]
    /\ UNCHANGED RecordOnly

RecordSetNotes(v) ==
    /\ RecordIdle
    /\ record' = [record EXCEPT !.notes = v, !.banner = NoBanner]
    /\ UNCHANGED RecordOnly

RecordSetTags(v) ==
    /\ RecordIdle
    /\ record' = [record EXCEPT !.tags = v, !.banner = NoBanner]
    /\ UNCHANGED RecordOnly

\* The confidence buttons 1..5
RecordSetConfidence(v) ==
    /\ RecordIdle
    /\ record' = [record EXCEPT !.confidence = v, !.banner = NoBanner]
    /\ UNCHANGED RecordOnly

\* The invest inputs are rendered only for the invest category.
RecordSetSymbol(v) ==
    /\ RecordIdle /\ recordIsInvest(record)
    /\ record' = [record EXCEPT !.symbol = v, !.banner = NoBanner]
    /\ UNCHANGED RecordOnly

RecordSetMarketCondition(c) ==
    /\ RecordIdle /\ recordIsInvest(record)
    /\ record' = [record EXCEPT !.marketCondition = c, !.banner = NoBanner]
    /\ UNCHANGED RecordOnly

RecordSetEntryPrice(v) ==
    /\ RecordIdle /\ recordIsInvest(record)
    /\ record' = [record EXCEPT !.entryPrice = v, !.banner = NoBanner]
    /\ UNCHANGED RecordOnly

RecordSetAction(a) ==
    /\ RecordIdle /\ recordIsInvest(record)
    /\ record' = [record EXCEPT !.action = a, !.banner = NoBanner]
    /\ UNCHANGED RecordOnly

\* validate(): the message shown, None when the form passes
validateAnyTitle(r) ==
    IF recordIsInvest(r) /\ Trim(r.symbol) = <<>> THEN Some("symbolRequired")
    ELSE IF recordIsInvest(r) /\ Trim(r.entryPrice) = <<>> THEN Some("entryPriceRequired")
    ELSE IF recordIsInvest(r) /\ parseNumberInput(r.entryPrice) = None
         THEN Some("entryPriceNumber")
    ELSE None

validate(r) ==
    IF Trim(r.title) = <<>> THEN Some("titleRequired")
    ELSE IF recordIsInvest(r) /\ Trim(r.symbol) = <<>> THEN Some("symbolRequired")
    ELSE IF recordIsInvest(r) /\ Trim(r.entryPrice) = <<>> THEN Some("entryPriceRequired")
    ELSE IF recordIsInvest(r) /\ parseNumberInput(r.entryPrice) = None
         THEN Some("entryPriceNumber")
    ELSE None

buildPayloadMetaAlways(r) ==
    [ categoryId |-> r.categoryId,
      title |-> Trim(r.title),
      notes |-> IF Trim(r.notes) # <<>> THEN Some(Trim(r.notes)) ELSE None,
      tags |-> tagsValue(r.tags),
      confidence |-> r.confidence,
      result |-> "pending",
      meta |-> Some([ symbol |-> ToUpperCase(Trim(r.symbol)),
                      action |-> r.action,
                      marketCondition |-> r.marketCondition,
                      entryPrice |-> parseNumberInput(r.entryPrice) ]) ]

\* buildPayload(); an absent field (undefined) is None
buildPayload(r) ==
    [ categoryId |-> r.categoryId,
      title |-> Trim(r.title),
      notes |-> IF Trim(r.notes) # <<>> THEN Some(Trim(r.notes)) ELSE None,
      tags |-> tagsValue(r.tags),
      confidence |-> r.confidence,
      result |-> "pending",
      meta |-> IF recordIsInvest(r)
               THEN Some([ symbol |-> ToUpperCase(Trim(r.symbol)),
                           action |-> r.action,
                           marketCondition |-> r.marketCondition,
                           entryPrice |-> parseNumberInput(r.entryPrice) ])
               ELSE None ]

\* saveOnly / saveAndOutcome up to the await: clearBanner(); validate();
\* setLoading(true); createDecision(buildPayload()).  The two differ in where
\* they navigate on success.
RecordSave(then) ==
    /\ RecordIdle
    /\ IF validate(record) # None
       THEN /\ record' = [record EXCEPT !.banner = showInfo(Get(validate(record)))]
            /\ UNCHANGED net
       ELSE /\ CanIssue
            /\ record' = [record EXCEPT !.banner = NoBanner, !.loading = TRUE,
                                        !.awaiting = then]
            /\ net' = Append(net, Request("createDecision", Some(buildPayload(record))))
    /\ UNCHANGED <<life, screen, params, server, outcome, nav, fn, loadVars>>

\* createDecision resolved: router.replace("/") or router.replace({pathname:
\* "/", params: {focusId, prompt: "outcome"}}); finally setLoading(false) on
\* the screen that was replaced.
RecordSaveOk(i) ==
    /\ screen = "record" /\ i \in InFlight("createDecision")
    /\ net' = Without(net, i)
    /\ life' = "unmounted"
    /\ nav' = IF record.awaiting = "saveOnly" THEN "home" ELSE "homeOutcomePrompt"
    /\ record' = [record EXCEPT !.awaiting = "none"]
    /\ UNCHANGED <<screen, params, server, outcome, fn, loadVars>>

\* createDecision rejected: showError(...); finally setLoading(false)
RecordSaveFail(i) ==
    /\ screen = "record" /\ i \in InFlight("createDecision")
    /\ net' = Without(net, i)
    /\ record' = [record EXCEPT !.banner = showError("saveFailed"), !.loading = FALSE,
                                !.awaiting = "none"]
    /\ UNCHANGED <<life, screen, params, server, outcome, nav, fn, loadVars>>

\* The screens that load on focus, as constructed and not yet focused.
LoadIdle ==
    /\ record = RecordInitial
    /\ home = HomeInitial
    /\ analysis = AnalysisInitial
    /\ review = ReviewInitial
    /\ detail = DetailInitial
    /\ weekly = WeeklyInitial

InitOutcome ==
    /\ screen \in {"outcome", "outcomeEarlier"}
    /\ life = "focused"
    /\ server \in [decision : ServerDecisions]
    /\ params \in [id : {None, Some("d1")},
                   categoryId : {None, Some(server.decision.categoryId)}]
    /\ outcome = OutcomeMounted(params)
    /\ net = IF params.id = None \/ screen = "outcomeEarlier" THEN <<>>
             ELSE <<Request("getDecision", None)>>
    /\ nav = "none"
    /\ fn = FnIdle
    /\ LoadIdle

NextOutcome ==
    \/ \E r \in {"positive", "negative", "neutral"} : OutcomeSetResult(r)
    \/ \E v \in 1..5 : OutcomeSetConfidence(v)
    \/ \E t \in PriceTexts : OutcomeSetEntryPrice(t)
    \/ \E t \in PriceTexts : OutcomeSetExitPrice(t)
    \/ OutcomeCloseBanner
    \/ OutcomeSubmit
    \/ OutcomeSubmitEarlier
    \/ \E i \in DOMAIN net : OutcomeSubmitOk(i)
    \/ \E i \in DOMAIN net : OutcomeSubmitOkEarlier(i)
    \/ OutcomeRefocusEarlier
    \/ \E i \in DOMAIN net : OutcomeSubmitFail(i)
    \/ \E i \in DOMAIN net : OutcomeFetchOk(i)
    \/ \E i \in DOMAIN net : OutcomeFetchFail(i)
    \/ \E to \in {"home", "detail"} : OutcomeLeave(to)
    \/ OutcomeBack

SpecOutcome == InitOutcome /\ [][NextOutcome]_vars

\* From the home list to a decision's outcome and back.
InitFlow ==
    /\ screen = "home"
    /\ life = "mounted"
    /\ server \in [decision : ServerDecisions]
    /\ params = [id |-> None, categoryId |-> None]
    /\ outcome = OutcomeInitial
    /\ LoadIdle
    /\ net = <<>>
    /\ nav = "none"
    /\ fn = FnIdle

NextFlow ==
    \/ HomeFocus
    \/ \E i \in DOMAIN net : HomeFocusLoadOk(i, ServedAll, ServedPending)
    \/ \E i \in DOMAIN net : HomeFocusLoadFail(i)
    \/ \E k \in 1..2 : HomeOpenItem(k)
    \/ \E r \in {"positive", "negative", "neutral"} : OutcomeSetResult(r)
    \/ \E t \in PriceTexts : OutcomeSetEntryPrice(t)
    \/ \E t \in PriceTexts : OutcomeSetExitPrice(t)
    \/ OutcomeSubmit
    \/ \E i \in DOMAIN net : OutcomeSubmitOk(i)
    \/ \E i \in DOMAIN net : OutcomeSubmitFail(i)
    \/ \E i \in DOMAIN net : OutcomeFetchOk(i)
    \/ \E i \in DOMAIN net : OutcomeFetchFail(i)
    \/ OutcomeBack
    \/ \E fresh \in BOOLEAN : ReturnHome(fresh)

SpecFlow == InitFlow /\ [][NextFlow]_vars

InitRecord ==
    /\ screen = "record"
    /\ life = "focused"
    /\ server \in [decision : {Decision("d1", "daily", "pending", 3, NoMeta)}]
    /\ params = [id |-> None, categoryId |-> None]
    /\ outcome = OutcomeInitial
    /\ net = <<>>
    /\ nav = "none"
    /\ fn = FnIdle
    /\ LoadIdle

NextRecord ==
    \/ \E c \in RecordCategories : RecordSetCategory(c)
    \/ \E v \in RecordTitles : RecordSetTitle(v)
    \/ \E v \in RecordNotes : RecordSetNotes(v)
    \/ \E v \in RecordTags : RecordSetTags(v)
    \/ \E v \in 1..5 : RecordSetConfidence(v)
    \/ \E v \in RecordSymbols : RecordSetSymbol(v)
    \/ \E c \in {"uncertain", "bull"} : RecordSetMarketCondition(c)
    \/ \E v \in RecordPrices : RecordSetEntryPrice(v)
    \/ \E a \in {"buy", "sell"} : RecordSetAction(a)
    \/ \E then \in {"saveOnly", "saveAndOutcome"} : RecordSave(then)
    \/ \E i \in DOMAIN net : RecordSaveOk(i)
    \/ \E i \in DOMAIN net : RecordSaveFail(i)

SpecRecord == InitRecord /\ [][NextRecord]_vars

\* A screen that loads on focus, constructed by the navigator and not yet focused.
InitLoad ==
    /\ screen \in {"home", "analysis", "review", "detail", "weekly"}
    /\ life = "mounted"
    /\ server \in [decision : ServerDecisions]
    /\ params \in [id : IF screen \in {"review", "detail"} THEN {None, Some("d1")}
                        ELSE {None},
                   categoryId : {None}]
    /\ outcome = OutcomeInitial
    /\ LoadIdle
    /\ net = <<>>
    /\ nav = "none"
    /\ fn = FnIdle

NextLoad ==
    \/ HomeFocus
    \/ \E i \in DOMAIN net, a \in ServerLists, p \in ServerPendingLists :
          HomeFocusLoadOk(i, a, p)
    \/ \E i \in DOMAIN net : HomeFocusLoadFail(i)
    \/ HomeRefresh
    \/ \E i \in DOMAIN net, a \in ServerLists, p \in ServerPendingLists :
          HomeRefreshOk(i, a, p)
    \/ \E i \in DOMAIN net : HomeRefreshFail(i)
    \/ HomeBlur
    \/ AnalysisFocus
    \/ \E d \in {30, DEFAULT_DAYS} : AnalysisSetDays(d)
    \/ \E c \in {None, Some("invest")} : AnalysisSetCategory(c)
    \/ AnalysisClearFilters
    \/ \E i \in DOMAIN net : AnalysisLoadOk(i)
    \/ \E i \in DOMAIN net : AnalysisLoadFail(i)
    \/ AnalysisRefresh
    \/ \E i \in DOMAIN net : AnalysisRefreshOk(i)
    \/ \E i \in DOMAIN net : AnalysisRefreshFail(i)
    \/ AnalysisBlur
    \/ ReviewFocus
    \/ \E i \in DOMAIN net, l \in ServerLists : ReviewLoadOk(i, l)
    \/ \E i \in DOMAIN net : ReviewLoadFail(i)
    \/ ReviewGoHome
    \/ DetailFocus
    \/ \E i \in DOMAIN net : DetailLoadOk(i)
    \/ \E i \in DOMAIN net : DetailLoadFail(i)
    \/ DetailBlur
    \/ DetailGoHome
    \/ WeeklyFocus
    \/ WeeklyRefresh
    \/ \E i \in DOMAIN net, c \in ServerReports, q \in ServerReports,
          p \in ServerPendingLists : WeeklyLoadOk(i, c, q, p)
    \/ \E i \in DOMAIN net : WeeklyLoadFail(i)
    \/ Back

\* The Detail screen's controls and the requests they send.
NextDetailEdit ==
    \/ \E v \in 1..5 : DetailSetConfidence(v)
    \/ \E next \in {"positive", "negative", "neutral"} : DetailSaveResult(next)
    \/ DetailRevertPress
    \/ DetailDeletePress
    \/ DetailDialogClose
    \/ DetailDialogConfirm
    \/ \E i \in DOMAIN net : DetailSaveResultOk(i)
    \/ \E i \in DOMAIN net : DetailSaveResultFail(i)
    \/ \E i \in DOMAIN net, c \in BOOLEAN : DetailDeleteOk(i, c)
    \/ \E i \in DOMAIN net : DetailDeleteFail(i)

\* The Detail screen alone, opened for a decision.
InitDetail == InitLoad /\ screen = "detail" /\ params.id # None

NextDetail ==
    \/ DetailFocus
    \/ \E i \in DOMAIN net : DetailLoadOk(i)
    \/ \E i \in DOMAIN net : DetailLoadFail(i)
    \/ DetailBlur
    \/ Back
    \/ NextDetailEdit

SpecDetail == InitDetail /\ [][NextDetail]_vars

\* The Detail screen alone, for a decision whose stored confidence the client
\* did not write: the server is an external collaborator, and the statistics
\* of the Review screen provide for confidences outside 1..5.
ServerDecisionsAnyConfidence ==
    ServerDecisions \cup { Decision("d1", "daily", "pending", 7, NoMeta) }

InitDetailAny ==
    /\ screen = "detail"
    /\ life = "mounted"
    /\ server \in [decision : ServerDecisionsAnyConfidence]
    /\ params = [id |-> Some("d1"), categoryId |-> None]
    /\ outcome = OutcomeInitial
    /\ LoadIdle
    /\ net = <<>>
    /\ nav = "none"
    /\ fn = FnIdle

SpecDetailAny == InitDetailAny /\ [][NextDetail]_vars

\* The Detail screen alone, editing the decision's fields.
NextDetailMeta ==
    \/ DetailFocus
    \/ \E i \in DOMAIN net : DetailLoadOk(i)
    \/ \E i \in DOMAIN net : DetailLoadFail(i)
    \/ DetailBlur
    \/ Back
    \/ \E c \in {"invest", "daily"} : DetailSetCategory(c)
    \/ \E v \in DetailTitles : DetailSetTitle(v)
    \/ \E v \in DetailTags : DetailSetTags(v)
    \/ DetailSaveMeta
    \/ DetailDialogClose
    \/ \E i \in DOMAIN net : DetailSaveMetaOk(i)
    \/ \E i \in DOMAIN net : DetailSaveMetaFail(i)
    \/ DetailToastExpire

SpecDetailMeta == InitDetail /\ [][NextDetailMeta]_vars

\* The two screens that send a decision's fields: Record creating one, Detail
\* editing one.
InitEditing == InitRecord \/ InitDetail

NextEditing == NextRecord \/ NextDetailMeta

SpecEditing == InitEditing /\ [][NextEditing]_vars

\* The decisions the Review screen may load: among them reflections stored
\* longer than the input admits.
ReviewServerDecisions ==
    { Decision("d1", "invest", "positive", 4,
               [NoMeta EXCEPT !.symbol = Some("AAA"), !.action = Some("sell"),
                              !.entryPrice = Some(72), !.exitPrice = Some(76)]),
      Decision("d1", "daily", "negative", 2,
               [NoMeta EXCEPT !.reflection = Some(Filled(MaxReflection + 1, "x"))]),
      Decision("d1", "daily", "neutral", 3,
               [NoMeta EXCEPT !.marketCondition = Some("bull"),
                              !.reflection =
                                  Some(Filled(MaxReflection, "x") \o <<" ">>)]) }

InitReview ==
    /\ screen = "review"
    /\ life = "mounted"
    /\ server \in [decision : ReviewServerDecisions]
    /\ params \in [id : {None, Some("d1")}, categoryId : {None}]
    /\ outcome = OutcomeInitial
    /\ record = RecordInitial
    /\ home = HomeInitial
    /\ analysis = AnalysisInitial
    /\ \E from \in {"detail", "outcome", "unknown"} :
          review = [ReviewInitial EXCEPT !.from = from]
    /\ detail = DetailInitial
    /\ weekly = WeeklyInitial
    /\ net = <<>>
    /\ nav = "none"
    /\ fn = FnIdle

NextReview ==
    \/ ReviewFocus
    \/ \E i \in DOMAIN net, l \in ServerLists : ReviewLoadOk(i, l)
    \/ \E i \in DOMAIN net : ReviewLoadFail(i)
    \/ \E v \in ReflectionTexts : ReviewSetReflection(v)
    \/ ReviewSaveReflection
    \/ \E i \in DOMAIN net : ReviewSaveOk(i)
    \/ \E i \in DOMAIN net : ReviewSaveFail(i)
    \/ \E c \in BOOLEAN : ReviewTimerFires(c)
    \/ ReviewGoHome
    \/ \E c \in BOOLEAN : ReviewGoDetail(c)
    \/ Back

SpecReview == InitReview /\ [][NextReview]_vars

\* The four screens that send mutating requests, each with all of its
\* handlers that send one (Detail's inputs keep their loaded values).
InitSaving == InitOutcome \/ InitRecord \/ InitDetail \/ InitReview

NextSaving ==
    \/ NextOutcome
    \/ NextRecord
    \/ NextDetail
    \/ DetailSaveMeta
    \/ \E i \in DOMAIN net : DetailSaveMetaOk(i)
    \/ \E i \in DOMAIN net : DetailSaveMetaFail(i)
    \/ DetailToastExpire
    \/ NextReview

SpecSaving == InitSaving /\ [][NextSaving]_vars

\* Every screen of the app, one screen instance per behaviour. Detail's field
\* editing is checked on its own (SpecDetailMeta).
Init == InitOutcome \/ InitLoad \/ InitRecord

Next == NextOutcome \/ NextLoad \/ NextDetailEdit \/ NextRecord

Spec == Init /\ [][Next]_vars

----------------------------------------------------------------------------
(* Claims about the Outcome screen *)

ResultPatches == { i \in DOMAIN net : net[i].op = "updateDecisionResult" }

\* C1: every outcome PATCH sent for an invest decision with result and
\* confidence carries a meta whose returnRate is calcReturnRate recomputed from
\* the entryPrice, exitPrice and action it submits. (Stated for the PATCHes
\* that carry a meta with both prices.)
C1_ReturnRateInMeta ==
    \A i \in ResultPatches :
        LET b == Get(net[i].body)
        IN  (/\ screen = "outcome"
             /\ server.decision.categoryId = "invest"
             /\ b.meta # None
             /\ {"entryPrice", "exitPrice"} \subseteq DOMAIN Get(b.meta))
            => LET m == Get(b.meta)
               IN  /\ "returnRate" \in DOMAIN m
                   /\ m.returnRate = calcReturnRate(Get(m.entryPrice), Get(m.exitPrice),
                                                    Get(m.action))

\* Both price inputs are non-blank and parse to a finite number.
PricesValid(o) ==
    /\ Trim(o.entryPrice) # <<>>
    /\ Trim(o.exitPrice) # <<>>
    /\ parseNumberInput(o.entryPrice) # None
    /\ parseNumberInput(o.exitPrice) # None

\* C2: for a decision whose category is invest, a step of the current Outcome
\* screen that sends the outcome PATCH is taken only with both price inputs
\* non-blank and parsing to finite numbers, whatever the state of the screen's
\* decision fetch and whether or not categoryId was passed.
C2_InvestPatchNeedsPrices ==
    [][ (/\ screen = "outcome"
         /\ server.decision.categoryId = "invest"
         /\ Len(net') > Len(net))
        => PricesValid(outcome) ]_vars

\* C3: a submit with no result selected shows an "info" banner, sends nothing
\* and leaves result, confidence and loading as they were; and every outcome
\* PATCH in flight carries positive, negative or neutral.
C3_PatchResultTerminal ==
    \A i \in ResultPatches :
        Get(net[i].body).result \in {"positive", "negative", "neutral"}

C3_NoResultStep ==
    (outcome.result = "null" /\ (OutcomeSubmit \/ OutcomeSubmitEarlier))
    => /\ outcome'.banner.kind = "info"
       /\ net' = net
       /\ outcome'.result = outcome.result
       /\ outcome'.confidence = outcome.confidence
       /\ outcome'.loading = outcome.loading

C3_NoResultRejected == []C3_PatchResultTerminal /\ [][C3_NoResultStep]_vars

\* C3 witness: the rejection banner is up while an earlier attempt's state
\* (a chosen confidence) is kept.
C3_Witness ==
    /\ outcome.banner = showInfo("selectResult")
    /\ outcome.result = "null"
    /\ outcome.confidence = 5

\* The device's clock and zone when the weekly report is opened.
MinutesOfDay == {0, 60, 12 * 60, 23 * 60 + 59}

ZoneOffsets == {0 - 8 * 60, 0, 5 * 60 + 30, 9 * 60}

InitWeekStart ==
    \E day \in BaseDay..(BaseDay + MaxDay), minute \in MinutesOfDay, off \in ZoneOffsets :
        fn = [op |-> "weekStart", now |-> day * MinutesPerDay + minute, off |-> off,
              out |-> None]

ApplyWeekStart ==
    /\ fn.op = "weekStart" /\ fn.out = None
    /\ fn' = [fn EXCEPT !.out = Some(WeekStartsSent(fn.now, fn.off))]
    /\ UNCHANGED FnVars

\* The states current and previous of the Weekly screen: null before the
\* first load, then a report.
DeltaReports ==
    {None}
    \cup { Some(r) : r \in ServerReports \cup {BrokenReport} }
    \cup { Some(WeekOf(positive, negative, 0, pending, Num(3), <<>>)) :
             positive \in 0..MaxCount, negative \in 0..MaxCount, pending \in 0..MaxCount }

InitDelta ==
    \E current \in DeltaReports, previous \in DeltaReports :
        fn = [op |-> "delta", current |-> current, previous |-> previous, out |-> None]

ApplyDelta ==
    /\ fn.op = "delta" /\ fn.out = None
    /\ fn' = [fn EXCEPT !.out = Some(delta(Summary(fn.current), Summary(fn.previous)))]
    /\ UNCHANGED FnVars

\* lib/categories.ts. The labels are written in English here: 승 / 패 / 본전 is
\* win / loss / even, and the default 긍정 / 부정 / 중립 is positive / negative /
\* neutral.
Labels(positive, negative, neutral) ==
    [positive |-> positive, negative |-> negative, neutral |-> neutral]

CATEGORIES ==
    << [id |-> "invest", name |-> "invest", resultLabels |-> Labels("win", "loss", "even")],
       [id |-> "health", name |-> "health",
        resultLabels |-> Labels("success", "failure", "partial success")],
       [id |-> "study", name |-> "study",
        resultLabels |-> Labels("went well", "did not go", "average")],
       [id |-> "shopping", name |-> "shopping",
        resultLabels |-> Labels("satisfied", "regret", "unsure")],
       [id |-> "career", name |-> "career",
        resultLabels |-> Labels("was good", "not so good", "do not know")],
       [id |-> "daily", name |-> "daily",
        resultLabels |-> Labels("good choice", "bad choice", "so-so")],
       [id |-> "relationship", name |-> "relationship",
        resultLabels |-> Labels("was good", "uncomfortable", "unsure")] >>

DEFAULT_LABELS == Labels("positive", "negative", "neutral")

\* Array.prototype.find: the first element satisfying the test, else undefined
Find(arr, Test(_)) ==
    IF \E i \in DOMAIN arr : Test(arr[i])
    THEN Some(arr[CHOOSE i \in DOMAIN arr :
                    Test(arr[i]) /\ \A j \in 1..(i - 1) : ~Test(arr[j])])
    ELSE None

\* CATEGORIES.find((c) => c.id === categoryId); an undefined categoryId is None
getCategory(categoryId) ==
    Find(CATEGORIES, LAMBDA c : categoryId # None /\ c.id = Get(categoryId))

getResultLabelsFirst(categoryId) == CATEGORIES[1].resultLabels

\* getCategory(categoryId)?.resultLabels ?? DEFAULT_LABELS
getResultLabels(categoryId) ==
    IF getCategory(categoryId) # None THEN Get(getCategory(categoryId)).resultLabels
    ELSE DEFAULT_LABELS

\* The category ids a caller may hand over: the registry's, others, undefined.
CategoryIds ==
    {None} \cup { Some(CATEGORIES[i].id) : i \in DOMAIN CATEGORIES }
           \cup { Some("unknown"), Some(""), Some("Invest") }

InitGetResultLabels ==
    \E categoryId \in CategoryIds :
        fn = [op |-> "getResultLabels", categoryId |-> categoryId, out |-> None]

ApplyGetResultLabels ==
    /\ fn.op = "getResultLabels" /\ fn.out = None
    /\ fn' = [fn EXCEPT !.out = Some(getResultLabels(fn.categoryId))]
    /\ UNCHANGED FnVars

\* Texts for a number input: a number written out, with white space around it
\* and a comma put somewhere into it, or a text that is no number.
WrittenNumbers == {0, 7, 72, 0 - 5, 72000}

\* The positions a comma is put at.
MaxText == 6

Spaces(n) == [i \in 1..n |-> " "]

WithComma(text, at) ==
    IF at > Len(text) THEN text
    ELSE SubSeq(text, 1, at) \o <<",">> \o SubSeq(text, at + 1, Len(text))

NoNumberTexts == { <<>>, <<" ">>, <<",">>, <<"a", "b", "c">>, <<"x", "7">>, <<"-">> }

InitParseNumberInput ==
    \/ \E n \in WrittenNumbers, at \in 0..MaxText, left \in 0..1, right \in 0..1 :
          fn = [op |-> "parseNumberInput",
                value |-> Spaces(left) \o WithComma(NumberToText(n), at) \o Spaces(right),
                written |-> Some(n), out |-> None]
    \/ \E t \in NoNumberTexts :
          fn = [op |-> "parseNumberInput", value |-> t, written |-> None, out |-> None]

ApplyParseNumberInput ==
    /\ fn.op = "parseNumberInput" /\ fn.out = None
    /\ fn' = [fn EXCEPT !.out = Some(parseNumberInput(fn.value))]
    /\ UNCHANGED FnVars

\* The decisions of the lists given to the Home screen's filter.
HomeDecisions ==
    { Decision("d1", "invest", "pending", 4, NoMeta),
      [Decision("d2", "daily", "positive", 2, NoMeta) EXCEPT
          !.title = <<"t", "e", "a">>, !.notes = Some(<<"N">>)],
      [Decision("d3", "invest", "negative", 3, NoMeta) EXCEPT
          !.title = <<"x">>, !.tags = << <<"T", "a">> >>],
      [Decision("d4", "daily", "pending", 5, NoMeta) EXCEPT
          !.title = <<"y">>, !.tags = <<>>] }

\* The loaded lists: up to MaxList decisions, each id once, in any order.
HomeLists ==
    { l \in UNION { [1..n -> HomeDecisions] : n \in 0..MaxList } :
        \A i, j \in DOMAIN l : i # j => l[i].id # l[j].id }

\* What the user may type into the search input.
HomeQueries == { <<>>, <<" ">>, <<"T">>, <<" ", "T", "a">>, <<"n">> }

\* The category chips ("health" has no decision in the lists).
HomeFilters == {"all", "invest", "daily", "health"}

InitFiltered ==
    \E all \in HomeLists, filter \in HomeFilters, onlyPending \in BOOLEAN,
       query \in HomeQueries :
        fn = [op |-> "filtered", all |-> all, filter |-> filter,
              onlyPending |-> onlyPending, query |-> query, out |-> None]

ApplyFiltered ==
    /\ fn.op = "filtered" /\ fn.out = None
    /\ fn' = [fn EXCEPT !.out = Some(filtered(fn.all, fn.filter, fn.onlyPending,
                                               fn.query))]
    /\ UNCHANGED FnVars

InitFn ==
    /\ Parked
    /\ LoadIdle
    /\ \/ InitStats
       \/ InitCalcReturnRate
       \/ InitWeekStart
       \/ InitDelta
       \/ InitBuckets
       \/ InitTagSelector
       \/ InitParseNumberInput
       \/ InitGetResultLabels
       \/ InitFiltered

NextFn ==
    \/ ApplyStats
    \/ ApplyCalcReturnRate
    \/ ApplyWeekStart
    \/ ApplyDelta
    \/ ApplyBuckets
    \/ \E tag \in TAGS : TagPress(tag)
    \/ ApplyParseNumberInput
    \/ ApplyGetResultLabels
    \/ ApplyFiltered

SpecFn == InitFn /\ [][NextFn]_vars

----------------------------------------------------------------------------
(* Claims about requests and the screens' lifecycle *)

\* The React state of every screen.
screenState == <<outcome, home, analysis, review, detail, weekly>>

\* C4: when every request in flight was issued before the screen lost focus
\* or unmounted, the step in which one of them completes (with a response or a
\* failure) leaves the state of every screen as it was.
C4_StaleResponseDiscarded ==
    [][ (/\ net # <<>>
         /\ \A i \in DOMAIN net : net[i].stale
         /\ Len(net') < Len(net))
        => screenState' = screenState ]_vars

\* C5: an Outcome, Detail or Review screen opened without an id has no request
\* in flight, and once its focus effect has run it renders its no-id state
\* (the one with the button to the home list), not the loading state.
C5_NoIdEmptyState ==
    (params.id = None /\ screen \in {"outcome", "outcomeEarlier", "detail", "review"})
    => /\ net = <<>>
       /\ life = "focused" =>
            /\ screen \in {"outcome", "outcomeEarlier"} => OutcomeView = "noId"
            /\ screen = "detail" => DetailView = "noId"
            /\ screen = "review" => ReviewView = "error"

----------------------------------------------------------------------------
(* Claims about the statistics *)

Applied_(op) == fn.op = op /\ fn.out # None

\* The decisions of a list that are not pending and satisfy P, by position.
CompletedWhere(all, P(_)) ==
    { i \in DOMAIN all : all[i].result # "pending" /\ P(all[i]) }

\* A rate <<p, q>> is positive/completed of the subset, 0 for an empty subset,
\* and within [0, 1].
RateOfSubset(r, all, subset) ==
    LET positive == Cardinality({ i \in subset : all[i].result = "positive" })
        total == Cardinality(subset)
    IN  /\ r.total = total
        /\ r.rate[2] > 0
        /\ 0 <= r.rate[1] /\ r.rate[1] <= r.rate[2]
        /\ IF total = 0 THEN r.rate[1] = 0
           ELSE r.rate[1] * total = positive * r.rate[2]

\* The confidence bucket of a decision: its confidence floored and clamped to
\* 1..5, 3 when it is not a number.
Bucket(d) ==
    IF d.confidence[1] # "number" THEN 3
    ELSE IF d.confidence[2] < 1 THEN 1
    ELSE IF d.confidence[2] > 5 THEN 5
    ELSE d.confidence[2]

\* C6: for every list and target, the overall, same-category and
\* same-confidence rates of the Review screen's stats equal
\* positiveCount/completedCount of their subset of non-pending decisions, are 0
\* for an empty subset, and lie in [0, 1].
C6_ReviewRates ==
    Applied_("stats") =>
        LET all == fn.all
            target == fn.target
            out == Get(fn.out)
            Every(d) == TRUE
            SameCat(d) == d.categoryId = target.categoryId
            SameConf(d) == Bucket(d) = Bucket(target)
        IN  /\ RateOfSubset(out.overall, all, CompletedWhere(all, Every))
            /\ RateOfSubset(out.category, all, CompletedWhere(all, SameCat))
            /\ RateOfSubset(out.confidence, all, CompletedWhere(all, SameConf))

\* stats applied to a list with two completed decisions of another category,
\* one of them positive: overall 1/2, same-category empty.
C6_Witness ==
    /\ Applied_("stats")
    /\ Len(fn.all) = 3
    /\ Get(fn.out).overall = [total |-> 2, rate |-> <<1, 2>>]
    /\ Get(fn.out).category = [total |-> 0, rate |-> <<0, 1>>]
    /\ Get(fn.out).confidence.total = 1

\* C7: calcReturnRate has no result when entry <= 0; otherwise its result is
\* 100 * (exit - entry) / entry for buy and 100 * (entry - exit) / entry for
\* sell rounded to one decimal (72000 -> 76000: 5.6 and -5.6); the Outcome and
\* Detail copies agree.
C7_ReturnRate ==
    Applied_("calcReturnRate") =>
        LET out == Get(fn.out)
            num == IF fn.action = "buy" THEN fn.exit - fn.entry ELSE fn.entry - fn.exit
            Abs(x) == IF x < 0 THEN 0 - x ELSE x
        IN  /\ out.outcome = out.detail
            /\ fn.entry <= 0 => out.outcome = None
            /\ fn.entry > 0 =>
                  /\ out.outcome # None
                  /\ Abs(2 * fn.entry * Get(out.outcome) - 2000 * num) <= fn.entry
            /\ (fn.entry = 72000 /\ fn.exit = 76000) =>
                  out.outcome = Some(IF fn.action = "buy" THEN 56 ELSE 0 - 56)

C7_Witness ==
    /\ Applied_("calcReturnRate")
    /\ fn.entry = 72000 /\ fn.exit = 76000 /\ fn.action = "sell"
    /\ Get(fn.out).detail = Some(0 - 56)

----------------------------------------------------------------------------
(* Claims about the weekly report *)

\* The Monday on or before a day (both counted from 1970-01-01, a Thursday).
MondayOnOrBefore(day) == CHOOSE m \in (day - 6)..day : (m + 3) % 7 = 0

\* C8: for every local date-time and UTC offset, the weekStart sent for the
\* current week is the local calendar date of the Monday on or before today,
\* and the one sent for the previous week is the date 7 days before it.
C8_WeekStartLocalMonday ==
    Applied_("weekStart") =>
        LET monday == MondayOnOrBefore(LocalDay(fn.now, fn.off))
        IN  /\ Get(fn.out).current = CivilFromDays(monday)
            /\ Get(fn.out).previous = CivilFromDays(monday - 7)

\* A report all of whose numbers are present and consistent: completed is the
\* sum of the three results and total adds the pending ones.
WellFormed(r) ==
    /\ r # None
    /\ LET g == Get(r)
           N(v) == v[1] = "number" /\ v[2] >= 0
       IN  /\ N(g.counts.total) /\ N(g.counts.completed) /\ N(g.counts.pending)
           /\ N(g.resultCounts.positive) /\ N(g.resultCounts.negative)
           /\ N(g.resultCounts.neutral)
           /\ g.counts.completed[2] = g.resultCounts.positive[2]
                 + g.resultCounts.negative[2] + g.resultCounts.neutral[2]
           /\ g.counts.total[2] = g.counts.completed[2] + g.counts.pending[2]

\* 100 * count(positive) / count(non-pending), 0 with no completed decision
PositiveRateOfCompleted(r) ==
    LET g == Get(r)
    IN  IF g.counts.completed[2] = 0 THEN <<0, 1>>
        ELSE <<100 * g.resultCounts.positive[2], g.counts.completed[2]>>

\* C9: the positive result-rate delta is the current week's positive rate
\* minus the previous week's, each rate being 100 * positive / non-pending
\* decisions of its week and 0 for a week with no completed decision.
C9_PositiveRateDelta ==
    (Applied_("delta") /\ WellFormed(fn.current) /\ WellFormed(fn.previous)) =>
        RatEq(Get(fn.out).resultRateDelta.positive,
              RatSub(PositiveRateOfCompleted(fn.current),
                     PositiveRateOfCompleted(fn.previous)))

\* The number a report holds in a field, 0 when the report or the number is
\* missing or the value is not a number.
NumberOr0(r, group, name) ==
    IF r = None THEN 0
    ELSE IF Get(r)[group][name][1] = "number" THEN Get(r)[group][name][2] ELSE 0

\* The number a report holds for a confidence level, 0 when it has no row for
\* the level or the value is not a number.
LevelNumberOr0(r, level, name) ==
    IF r = None THEN 0
    ELSE LET rows == Get(r).confidence.byLevel
             at == { i \in DOMAIN rows : rows[i].confidence = level }
         IN  IF at = {} THEN 0
             ELSE LET v == rows[CHOOSE i \in at : \A j \in at : i <= j][name]
                  IN  IF v[1] = "number" THEN v[2] ELSE 0

\* The share of a result among the week's decisions, in percent.
ShareOf(r, group, name) ==
    IF NumberOr0(r, "counts", "total") <= 0 THEN <<0, 1>>
    ELSE <<100 * NumberOr0(r, group, name), NumberOr0(r, "counts", "total")>>

\* C10: every week-over-week delta is the signed difference current minus
\* previous: the count deltas (total, completed, pending, per result, per
\* confidence level) are integers, a missing or non-numeric value or an absent
\* confidence level counts as 0, and the rate deltas are differences of
\* percentages (totals 10 and 6 give 4; rates 40% and 25% give +15).
C10_SignedDeltas ==
    Applied_("delta") =>
        LET c == fn.current
            p == fn.previous
            out == Get(fn.out)
            Diff(group, name) == NumberOr0(c, group, name) - NumberOr0(p, group, name)
        IN  /\ \A name \in {"total", "completed", "pending"} :
                  /\ out.countDelta[name] \in Int
                  /\ out.countDelta[name] = Diff("counts", name)
            /\ \A name \in {"positive", "negative", "neutral"} :
                  /\ out.resultDelta[name] \in Int
                  /\ out.resultDelta[name] = Diff("resultCounts", name)
                  /\ RatEq(out.resultRateDelta[name],
                           RatSub(ShareOf(c, "resultCounts", name),
                                  ShareOf(p, "resultCounts", name)))
            /\ out.resultDelta.pending = Diff("counts", "pending")
            /\ RatEq(out.resultRateDelta.pending,
                     RatSub(ShareOf(c, "counts", "pending"), ShareOf(p, "counts", "pending")))
            /\ out.confidenceDelta.average = Diff("confidence", "average")
            /\ \A level \in 1..5 :
                  /\ out.confidenceLevelDelta[level].totalDelta \in Int
                  /\ out.confidenceLevelDelta[level].totalDelta =
                        LevelNumberOr0(c, level, "total") - LevelNumberOr0(p, level, "total")
                  /\ out.confidenceLevelDelta[level].positiveRateDelta =
                        LevelNumberOr0(c, level, "positiveRate")
                        - LevelNumberOr0(p, level, "positiveRate")
            /\ (NumberOr0(c, "counts", "total") = 10 /\ NumberOr0(p, "counts", "total") = 6)
                  => out.countDelta.total = 4
            /\ (/\ RatEq(ShareOf(c, "resultCounts", "positive"), <<40, 1>>)
                /\ RatEq(ShareOf(p, "resultCounts", "positive"), <<25, 1>>))
                  => RatEq(out.resultRateDelta.positive, <<15, 1>>)

\* delta applied to weeks with totals 10 and 6, level 3 at 40% and 25%, and
\* level 5 absent from the previous week.
C10_Witness ==
    /\ Applied_("delta")
    /\ fn.current # None /\ fn.previous # None
    /\ Get(fn.current).counts.total = Num(10)
    /\ Get(fn.previous).counts.total = Num(6)
    /\ Get(fn.out).countDelta.total = 4
    /\ Get(fn.out).confidenceLevelDelta[3].positiveRateDelta = 15
    /\ Get(fn.out).confidenceLevelDelta[5].totalDelta = 3

----------------------------------------------------------------------------
(* Claims about confidence buckets *)

\* C11: over any list, the same-confidence totals of the Review screen's
\* stats for the targets of confidence 1, 2, 3, 4 and 5 sum to the number of
\* completed decisions, and every completed decision is counted by exactly
\* one of them, also with a confidence that is missing, not a number, not an
\* integer or outside 1..5.
C11_BucketsPartition ==
    Applied_("buckets") =>
        LET out == Get(fn.out)
            completed == { i \in DOMAIN fn.all : fn.all[i].result # "pending" }
            InBucket(i, level) ==
                clamp1to5(safeInt(fn.all[i].confidence, 3)) = out[level].myConfidence
        IN  /\ \A level \in 1..5 : out[level].myConfidence = level
            /\ out[1].confidence.total + out[2].confidence.total
                 + out[3].confidence.total + out[4].confidence.total
                 + out[5].confidence.total = Cardinality(completed)
            /\ \A i \in completed :
                  Cardinality({ level \in 1..5 : InBucket(i, level) }) = 1

\* Three completed decisions with confidence 7, 2.5 and missing: buckets 5, 2, 3.
C11_Witness ==
    /\ Applied_("buckets")
    /\ Len(fn.all) = 3
    /\ \A i \in 1..3 : fn.all[i].result = "positive"
    /\ fn.all[1].confidence = Num(7)
    /\ fn.all[2].confidence = NumHalves(5)
    /\ fn.all[3].confidence = Missing
    /\ Get(fn.out)[5].confidence.total = 1
    /\ Get(fn.out)[2].confidence.total = 1
    /\ Get(fn.out)[3].confidence.total = 1

----------------------------------------------------------------------------
(* Claims about the tag selector *)

\* The selection, and what the last toggle passed to onChange, have at most 5
\* tags and no duplicates.
C12_SelectionBounded ==
    fn.op = "tags" =>
        /\ Len(fn.selected) <= 5 /\ Distinct(fn.selected)
        /\ fn.changed # None =>
              Len(Get(fn.changed)) <= 5 /\ Distinct(Get(fn.changed))

\* A toggle of an unselected tag with 5 selected calls nothing and changes
\* nothing; a toggle of a selected tag removes it and keeps the others in order.
C12_ToggleStep ==
    (fn.op = "tags" /\ fn'.tag # None) =>
        LET tag == Get(fn'.tag)
            selectedBefore == { fn.selected[i] : i \in DOMAIN fn.selected }
            selectedAfter == { fn'.selected[i] : i \in DOMAIN fn'.selected }
        IN  /\ (tag \notin selectedBefore /\ Len(fn.selected) = 5) =>
                  fn'.changed = None /\ fn'.selected = fn.selected
            /\ tag \in selectedBefore =>
                  /\ fn'.changed = Some(fn'.selected)
                  /\ selectedAfter = selectedBefore \ {tag}
                  /\ Len(fn'.selected) = Len(fn.selected) - 1

\* C12: after any sequence of toggles from at most 5 distinct tags, what is
\* passed to onChange has at most 5 tags and no duplicates; toggling an
\* unselected tag while 5 are selected calls nothing and leaves the selection,
\* and toggling a selected tag removes it.
C12_TagToggles == []C12_SelectionBounded /\ [][C12_ToggleStep]_vars

\* A sixth tag was pressed with five selected and nothing was passed on.
C12_Witness ==
    /\ fn.op = "tags"
    /\ Len(fn.selected) = 5
    /\ fn.tag # None
    /\ ~Includes(fn.selected, Get(fn.tag))
    /\ fn.changed = None

----------------------------------------------------------------------------
(* Claims about the Detail screen *)

\* The PATCHes of a result sent by the Detail screen and not yet answered.
DetailResultPatches == { i \in DOMAIN net : net[i].op = "detailSaveResult" }

\* C13: whenever the Detail screen shows a decision and is not saving,
\* whatever the current result, each of positive, negative and neutral can be
\* submitted directly and the revert dialog can be opened; confirming that
\* dialog submits pending. (CanIssue is the model's bound on requests.)
C13_AnyResultTransition ==
    /\ (DetailContent /\ ~detail.saving /\ CanIssue) =>
          /\ \A next \in {"positive", "negative", "neutral"} :
                ENABLED DetailSaveResult(next)
          /\ ENABLED DetailRevertPress
    /\ (/\ DetailDialogShown /\ CanIssue
        /\ "onConfirm" \in DOMAIN Get(detail.dialog)
        /\ Get(detail.dialog).onConfirm = "onSaveResult") =>
          ENABLED DetailDialogConfirm
    /\ \A i \in DetailResultPatches :
          Get(net[i].body).result \in {"pending", "positive", "negative", "neutral"}

\* A revert to pending submitted for a decision whose result is neutral.
C13_Witness ==
    /\ screen = "detail" /\ life = "focused"
    /\ detail.result = "neutral"
    /\ server.decision.result = "neutral"
    /\ \E i \in DetailResultPatches : Get(net[i].body).result = "pending"

----------------------------------------------------------------------------
(* Claims about the home list *)

----------------------------------------------------------------------------
(* Record: what a create request carries *)

\* The bodies of the create requests in flight.
CreateBodies == { Get(net[i].body) : i \in InFlight("createDecision") }

\* C15: every create request of the Record screen carries result = "pending",
\* and it carries the invest meta (symbol, action, marketCondition and an
\* entryPrice that is a number) exactly when its category is invest; for any
\* other category the meta is absent.
C15_CreatePendingInvestMeta ==
    \A b \in CreateBodies :
        /\ b.result = "pending"
        /\ (b.meta # None) <=> (b.categoryId = "invest")
        /\ b.meta # None =>
             /\ DOMAIN Get(b.meta) = {"symbol", "action", "marketCondition", "entryPrice"}
             /\ Get(b.meta).symbol # <<>>
             /\ Get(b.meta).action \in {"buy", "sell"}
             /\ Get(b.meta).entryPrice # None

\* Both kinds of create request are sent: here an invest one, after the user
\* typed a symbol and a price.
C15_Witness ==
    \E b \in CreateBodies :
        /\ b.categoryId = "invest" /\ b.meta # None
        /\ Get(b.meta).symbol = <<"A">> /\ Get(b.meta).entryPrice = Some(72)
        /\ Get(b.meta).action = "sell"

\* A create request of another category, without meta, is sent too.
C15_WitnessOther ==
    \E b \in CreateBodies : b.categoryId = "daily" /\ b.meta = None


----------------------------------------------------------------------------
(* Record and Detail: the tags of a request *)

\* The bodies of the edit requests in flight.
EditBodies == { Get(net[i].body) : i \in InFlight("detailSaveMeta") }

\* The position of the first piece of ps equal to t.
FirstAt(ps, t) == CHOOSE i \in DOMAIN ps : ps[i] = t /\ \A j \in 1..(i - 1) : ps[j] # t

\* tags is what the typed text names: its comma-separated pieces, trimmed, the
\* empty ones left out, each once, in the order of first occurrence.
TagsOfText(tags, text) ==
    LET ps == TrimmedNonEmpty(SplitCommas(text))
    IN  /\ \A i \in DOMAIN tags : tags[i] # <<>>
        /\ \A i, j \in DOMAIN tags : i # j => tags[i] # tags[j]
        /\ { tags[i] : i \in DOMAIN tags } = { ps[i] : i \in DOMAIN ps }
        /\ \A i, j \in DOMAIN tags : i < j => FirstAt(ps, tags[i]) < FirstAt(ps, tags[j])

\* No empty tag and no two equal tags.
EachTagOnce(tags) ==
    /\ \A i \in DOMAIN tags : tags[i] # <<>>
    /\ \A i, j \in DOMAIN tags : i # j => tags[i] # tags[j]

\* C16: the tags of every create request (Record) and of every edit request
\* (Detail) hold no empty tag and no two equal tags, and list the tags typed in
\* the order of their first occurrence. Record's inputs are disabled while its
\* request is in flight, so the typed text is still the one it was built from.
C16_TagsNormalised ==
    /\ \A b \in CreateBodies : TagsOfText(b.tags, record.tags)
    /\ \A b \in EditBodies : EachTagOnce(b.tags)

\* The part of C16 about Detail, which parseTags satisfies: the request that
\* onSaveMeta sends holds the tags of the text typed, each once, in the order
\* of first occurrence.
C16_EditStep ==
    (Len(net') = Len(net) + 1 /\ net'[Len(net')].op = "detailSaveMeta")
        => TagsOfText(Get(net'[Len(net')].body).tags, detail.tags)

C16_EditTagsNormalised ==
    [](\A b \in EditBodies : EachTagOnce(b.tags)) /\ [][C16_EditStep]_vars

\* An edit request built from a text that repeats a tag.
C16_EditWitness ==
    \E b \in EditBodies :
        detail.tags = <<"b", ",", "a", ",", " ", "b">> /\ b.tags = << <<"b">>, <<"a">> >>


----------------------------------------------------------------------------
(* The confidence of a request *)

\* The bodies of the create, outcome-submission and result-update requests in
\* flight.
ConfidenceBodies ==
    { Get(net[i].body) :
        i \in InFlight("createDecision") \cup InFlight("updateDecisionResult")
              \cup InFlight("detailSaveResult") }

----------------------------------------------------------------------------
(* Record and Detail: the title of a request *)

\* The create half of C18: the Record screen sends no create request whose title is empty
\* after trimming: a save with such a title sends nothing and shows the
\* validation message, and the title sent is the typed title trimmed.
C18_CreateStep ==
    /\ (Len(net') = Len(net) + 1 /\ net'[Len(net')].op = "createDecision")
          => /\ Get(net'[Len(net')].body).title = Trim(record.title)
             /\ Trim(record.title) # <<>>
    /\ (RecordIdle /\ Trim(record.title) = <<>> /\ record'.banner # NoBanner)
          => /\ net' = net
             /\ record'.banner = showInfo("titleRequired")


\* A create request whose typed title had white space around it.
C18_CreateWitness ==
    \E b \in CreateBodies : record.title = <<" ", "T", " ">> /\ b.title = <<"T">>

\* A save rejected for its blank title.
C18_CreateRejected ==
    /\ Trim(record.title) = <<>> /\ record.title # <<>>
    /\ record.banner = showInfo("titleRequired") /\ net = <<>>

\* The edit half of C18: the same for the edit requests of the Detail screen, whose
\* message is shown in a dialog.
C18_EditStep ==
    /\ (Len(net') = Len(net) + 1 /\ net'[Len(net')].op = "detailSaveMeta")
          => /\ Get(net'[Len(net')].body).title = Trim(detail.title)
             /\ Trim(detail.title) # <<>>
    /\ (DetailContent /\ ~detail.saving /\ Trim(detail.title) = <<>>
        /\ detail'.dialog # None /\ "onConfirm" \notin DOMAIN Get(detail'.dialog))
          => /\ net' = net
             /\ detail'.dialog = openDialog("inputNeeded", "titleRequired")

\* C18: no create or edit request with a title that is empty after trimming;
\* the title sent is trimmed; a blank title is rejected with the message.
C18_TitleTrimmed ==
    /\ [](\A b \in CreateBodies \cup EditBodies : b.title # <<>> /\ Trim(b.title) = b.title)
    /\ [][C18_CreateStep /\ C18_EditStep]_vars

C18_EditWitness ==
    \E b \in EditBodies : b.title = <<"t">>

C18_EditRejected ==
    /\ Trim(detail.title) = <<>>
    /\ detail.dialog = openDialog("inputNeeded", "titleRequired")


----------------------------------------------------------------------------
(* What makes the client send a request *)

\* The requests in flight without the handlers' flags.
Sent(q) == [k \in DOMAIN q |-> <<q[k].op, q[k].body>>]

\* The user's events that start a load or a save: a screen gaining focus, a
\* filter chip, pull-to-refresh / the retry banner, a save or confirm button.
UserEvent ==
    \/ HomeFocus \/ HomeRefresh
    \/ AnalysisFocus \/ AnalysisRefresh \/ AnalysisClearFilters
    \/ \E d \in {30, DEFAULT_DAYS} : AnalysisSetDays(d)
    \/ \E c \in {None, Some("invest")} : AnalysisSetCategory(c)
    \/ ReviewFocus
    \/ DetailFocus
    \/ \E next \in {"positive", "negative", "neutral"} : DetailSaveResult(next)
    \/ DetailDialogConfirm
    \/ WeeklyFocus \/ WeeklyRefresh
    \/ OutcomeSubmit \/ OutcomeSubmitEarlier
    \/ \E then \in {"saveOnly", "saveAndOutcome"} : RecordSave(then)

\* A request of the screen failed and its handler ran.
RequestFailed ==
    \E i \in DOMAIN net :
        \/ HomeFocusLoadFail(i) \/ HomeRefreshFail(i)
        \/ AnalysisLoadFail(i) \/ AnalysisRefreshFail(i)
        \/ ReviewLoadFail(i)
        \/ DetailLoadFail(i) \/ DetailSaveResultFail(i) \/ DetailDeleteFail(i)
        \/ WeeklyLoadFail(i)
        \/ OutcomeSubmitFail(i) \/ OutcomeFetchFail(i)
        \/ RecordSaveFail(i)

\* Every step leaves the requests alone, or takes one away (its response was
\* handled) and sends none, or is a user's event and sends exactly one; the
\* step that handles a failure sends none.
C19_Step ==
    /\ \/ Sent(net') = Sent(net)
       \/ \E i \in DOMAIN net : Sent(net') = Without(Sent(net), i)
       \/ /\ UserEvent
          /\ Len(net') = Len(net) + 1
          /\ SubSeq(Sent(net'), 1, Len(net)) = Sent(net)
    /\ RequestFailed => Len(net') = Len(net) - 1

----------------------------------------------------------------------------
(* What a failed request leaves behind *)

\* After the step that handles a failed request of a screen that is still on
\* the stack: the screen's message is set, the flag of the handler is false,
\* and the data loaded earlier is what it was.
C20_Step ==
    life # "unmounted" =>
      \A i \in DOMAIN net :
        /\ HomeFocusLoadFail(i) =>
             /\ home'.loadError # None /\ ~home'.initialLoading
             /\ home'.all = home.all /\ home'.pending = home.pending
        /\ HomeRefreshFail(i) =>
             /\ home'.loadError # None /\ ~home'.refreshing
             /\ home'.all = home.all /\ home'.pending = home.pending
        /\ AnalysisLoadFail(i) =>
             /\ analysis'.errorMsg # None /\ ~analysis'.loading
             /\ analysis'.data = analysis.data
        /\ AnalysisRefreshFail(i) =>
             /\ analysis'.errorMsg # None /\ ~analysis'.loading /\ ~analysis'.refreshing
             /\ analysis'.data = analysis.data
        /\ ReviewLoadFail(i) =>
             /\ review'.err # None /\ ~review'.loading
             /\ review'.target = review.target /\ review'.all = review.all
        /\ DetailLoadFail(i) =>
             /\ detail'.dialog # None /\ ~detail'.loading
             /\ detail'.decision = detail.decision
        /\ DetailSaveResultFail(i) =>
             /\ detail'.dialog # None /\ ~detail'.saving
             /\ detail'.decision = detail.decision /\ detail'.result = detail.result
        /\ DetailDeleteFail(i) =>
             /\ detail'.dialog # None /\ ~detail'.saving
             /\ detail'.decision = detail.decision
        /\ WeeklyLoadFail(i) =>
             /\ weekly'.errorMsg # None /\ ~weekly'.loading /\ ~weekly'.refreshing
             /\ weekly'.current = weekly.current /\ weekly'.previous = weekly.previous
             /\ weekly'.oldestPending = weekly.oldestPending
        /\ OutcomeFetchFail(i) =>
             /\ outcome'.banner # NoBanner /\ ~outcome'.loadingDecision
             /\ outcome'.decision = outcome.decision
        /\ OutcomeSubmitFail(i) =>
             /\ outcome'.banner # NoBanner /\ ~outcome'.loading
             /\ outcome'.decision = outcome.decision
        /\ RecordSaveFail(i) =>
             /\ record'.banner # NoBanner /\ ~record'.loading

\* C20: every failure of a request of a load or save handler is caught by the
\* handler: afterwards an error message the user sees is set, the handler's
\* loading / saving / refreshing flag is false, and the data loaded earlier is
\* unchanged.
C20_FailureHandled == [][C20_Step]_vars


----------------------------------------------------------------------------
(* Claims about the helpers of the number inputs and of the labels *)

\* C21: parseNumberInput removes every comma and the white space around the
\* text before parsing: a number written out, with a comma anywhere in it and
\* spaces around it, gives that number ("72,000" gives 72000), and a text that
\* is no number ("abc", "", a lone comma or sign) gives absent, never 0.
C21_ParseNumberInput ==
    Applied_("parseNumberInput") =>
        /\ Get(fn.out) = fn.written
        /\ fn.written = None => Get(fn.out) # Some(0)
        /\ fn.value = <<"7", "2", ",", "0", "0", "0">> => Get(fn.out) = Some(72000)

C21_Witness ==
    /\ Applied_("parseNumberInput")
    /\ fn.value = <<" ", "7", "2", ",", "0", "0", "0">>
    /\ Get(fn.out) = Some(72000)

C21_WitnessAbsent ==
    /\ Applied_("parseNumberInput")
    /\ fn.value = <<"a", "b", "c">> /\ Get(fn.out) = None


\* C22: for every id of the registry getResultLabels returns that category's
\* own labels, for every other id, undefined included, the generic triple; the
\* result is always a whole triple of labels.
C22_ResultLabels ==
    Applied_("getResultLabels") =>
        LET out == Get(fn.out)
            own == { i \in DOMAIN CATEGORIES : fn.categoryId = Some(CATEGORIES[i].id) }
        IN  /\ DOMAIN out = {"positive", "negative", "neutral"}
            /\ \A k \in DOMAIN out : out[k] \in STRING /\ out[k] # ""
            /\ \A i \in own : out = CATEGORIES[i].resultLabels
            /\ own = {} => out = Labels("positive", "negative", "neutral")
            /\ fn.categoryId = Some("daily") => out.neutral = "so-so"

C22_Witness ==
    /\ Applied_("getResultLabels")
    /\ fn.categoryId = Some("health")
    /\ Get(fn.out) = Labels("success", "failure", "partial success")

C22_WitnessUnknown ==
    /\ Applied_("getResultLabels")
    /\ fn.categoryId = None
    /\ Get(fn.out) = Labels("positive", "negative", "neutral")


----------------------------------------------------------------------------
(* Analysis: which response is displayed *)

\* C23: on the Analysis screen, once no summary request is in flight (and the
\* last one did not fail), the summary displayed is the response to the request
\* made with the filters now selected, in whatever order the responses came.
C23_LatestFiltersDisplayed ==
    (/\ screen = "analysis" /\ life # "unmounted"
     /\ net = <<>>
     /\ analysis.errorMsg = None
     /\ analysis.data # None)
    => Get(analysis.data).query = AnalysisQuery(analysis)


----------------------------------------------------------------------------
(* Home: the counts of the header *)

\* C24: on Home, after any completed load, the pending count plus the completed
\* count is the number of loaded decisions, and the completed count is the
\* number of loaded decisions that are not pending, whatever the two list
\* requests of the load answered.
C24_HeaderCounts ==
    screen = "home" =>
        /\ pendingCount(home) + completedCount(home) = Len(home.all)
        /\ completedCount(home) =
              Cardinality({ i \in DOMAIN home.all : home.all[i].result # "pending" })


----------------------------------------------------------------------------
(* The return rate of the opposite action *)

\* C25: for every entry > 0 and every exit, the return rate of a sell is the
\* negation of the return rate of a buy, also when the unrounded value lies
\* halfway between two tenths of a percent (both copies).
C25_SellNegatesBuy ==
    (Applied_("calcReturnRate") /\ fn.entry > 0) =>
        LET other == IF fn.action = "buy" THEN "sell" ELSE "buy"
            out   == Get(fn.out)
        IN  /\ Get(out.outcome) = 0 - Get(calcReturnRate(fn.entry, fn.exit, other))
            /\ Get(out.detail) = 0 - Get(calcReturnRateDetail(fn.entry, fn.exit, other))


\* C26: after a reflection is saved on the Review screen, the screen's code
\* navigates away exactly once: the navigation delayed by 600 ms does not run
\* once the user has left with the Home or the Detail button.  Stated as: the
\* router calls made by the Review screen never number more than one.
C26_OneNavigation == screen = "review" => review.navigations <= 1


\* C29: a step of the Review screen that sends the reflection PATCH sends a
\* meta with the keys of the meta loaded before, each with its loaded value
\* except reflection, which is the typed text trimmed; and no such step is
\* taken when the trimmed text is longer than 120 characters.
C29_SaveStep ==
    (Len(net') = Len(net) + 1 /\ net'[Len(net')].op = "reviewSaveReflection") =>
        LET sent == Get(net'[Len(net')].body).meta
            prevMeta == Get(review.target).meta
            text == Trim(review.reflection)
        IN  /\ Len(text) <= 120
            /\ DOMAIN sent = DOMAIN prevMeta
            /\ sent.reflection = Some(text)
            /\ \A k \in DOMAIN prevMeta \ {"reflection"} : sent[k] = prevMeta[k]

C29_ReflectionPatch == [][C29_SaveStep]_vars

\* A PATCH in flight that carries the loaded symbol and prices beside the
\* trimmed reflection.
C29_Witness ==
    /\ screen = "review" /\ review.reflection = <<" ", "o", "k", " ">>
    /\ \E i \in InFlight("reviewSaveReflection") :
          LET sent == Get(net[i].body).meta
          IN  /\ sent.reflection = Some(<<"o", "k">>)
              /\ sent.symbol = Some("AAA")
              /\ sent.exitPrice = Some(76)

\* A stored reflection of 121 characters is refused and nothing is sent.
C29_WitnessTooLong ==
    /\ screen = "review" /\ review.banner.text = "tooLong"
    /\ Len(Trim(review.reflection)) = 121
    /\ net = <<>>


\* The requests that change the server's data: create, the result PATCH of
\* Outcome and of Detail, the edit PATCH of Detail and of Review, DELETE.
MutatingOps ==
    {"createDecision", "updateDecisionResult", "detailSaveResult",
     "detailSaveMeta", "reviewSaveReflection", "detailDelete"}

MutatingInFlight(q) == { i \in DOMAIN q : q[i].op \in MutatingOps }

\* The flag that disables the screen's controls during a request.
SavingFlag ==
    CASE screen \in {"outcome", "outcomeEarlier"} -> outcome.loading
      [] screen = "record" -> record.loading
      [] screen = "detail" -> detail.saving
      [] screen = "review" -> review.saving
      [] OTHER -> FALSE

C27_StartStep ==
    Cardinality(MutatingInFlight(net')) > Cardinality(MutatingInFlight(net)) =>
        /\ ~SavingFlag
        /\ MutatingInFlight(net) = {}
        /\ SavingFlag'

\* C27: on the Detail, Outcome, Record and Review screens at most one mutating
\* request is in flight at any time, and a step that starts one (a button or
\* the confirm dialog) is taken only with the screen's saving / loading flag
\* false and nothing mutating in flight, and sets the flag.
C27_OneMutatingRequest ==
    /\ [](Cardinality(MutatingInFlight(net)) <= 1)
    /\ [][C27_StartStep]_vars

\* A DELETE started through the confirm dialog is in flight with the flag set.
C27_Witness ==
    /\ screen = "detail" /\ detail.saving /\ detail.dialog = None
    /\ \E i \in DOMAIN net : net[i].op = "detailDelete"


\* The dialog the delete button opens.
DeleteConfirm == openConfirm("delete", "deleteQuestion", "delete", "doDelete")

Deletes(q) == { i \in DOMAIN q : q[i].op = "detailDelete" }

C28_DeleteStep ==
    /\ Cardinality(Deletes(net')) > Cardinality(Deletes(net)) =>
          /\ life = "focused"
          /\ detail.dialog = DeleteConfirm
          /\ detail'.dialog = None
    /\ (detail.dialog # DeleteConfirm /\ detail'.dialog = DeleteConfirm) =>
          /\ DetailContent /\ ~detail.saving
          /\ net' = net
    /\ DetailDialogClose => net' = net /\ nav' = nav
    /\ \A i \in DOMAIN net :
          /\ DetailDeleteFail(i) =>
                /\ nav' = nav /\ life' = life
                /\ life # "unmounted" =>
                      detail'.dialog = openDialog("error", "deleteFailed")
          /\ (\E c \in BOOLEAN : DetailDeleteOk(i, c)) =>
                life' = "unmounted" /\ nav' \in {"back", "home"}

\* C28: a DELETE is sent only by the confirm button of the dialog that the
\* delete button opened; closing the dialog sends nothing; a failed delete
\* leaves the user on the Detail screen with the error dialog, a successful one
\* takes the screen off the stack.
C28_DeleteOnlyConfirmed == [][C28_DeleteStep]_vars

\* After a confirmed delete failed: still on the screen, the error dialog open.
C28_Witness ==
    /\ screen = "detail" /\ life = "focused" /\ nav = "none"
    /\ detail.dialog = openDialog("error", "deleteFailed")
    /\ ~detail.saving /\ net = <<>>

\* After a confirmed delete succeeded.
C28_WitnessDeleted ==
    /\ screen = "detail" /\ life = "unmounted" /\ nav = "back"
    /\ detail.dialog = None /\ Deletes(net) = {}


\* A decision matches the active filters: its category is the chip's (or the
\* chip is "all"), it is pending when only pending ones are asked for, and the
\* trimmed query, if not empty, occurs in its title, notes or a tag whatever
\* the case of the letters.
MatchesFilters(d, filter, onlyPending, query) ==
    /\ filter # "all" => d.categoryId = filter
    /\ onlyPending => d.result = "pending"
    /\ Trim(query) # <<>> =>
          LET q == ToLowerCase(Trim(query))
              texts == {d.title} \cup (IF d.notes = None THEN {} ELSE {Get(d.notes)})
                         \cup { d.tags[t] : t \in DOMAIN d.tags }
          IN  \E text \in texts : Contains(ToLowerCase(text), q)

\* Where the decision with this id stands in the loaded list.
LoadedAt(all, id) == CHOOSE i \in DOMAIN all : all[i].id = id

C30_WitnessSearch ==
    /\ Applied_("filtered")
    /\ fn.query = <<" ", "T", "a">> /\ Len(fn.all) = 3 /\ Len(Get(fn.out)) = 1

============================================================================
